---- MODULE Spec2Model ----
(***************************************************************************)
(* Scheduling and gap-fill engine of BestAppointmentManager.               *)
(*                                                                         *)
(* Instants are minutes since Monday 00:00 UTC of the modelled week.       *)
(* The database is PostgreSQL (app/config.py:22) under its default READ    *)
(* COMMITTED isolation, sessions are created with autoflush=False          *)
(* (app/db.py:25): a statement sees the rows committed before it runs plus *)
(* the rows its own session has flushed, never another session's           *)
(* uncommitted rows.                                                       *)
(***************************************************************************)
EXTENDS Integers, Sequences, FiniteSets, TLC

VARIABLES
    now,          \* the current instant (UTC minutes)
    appts,        \* committed appointments table: id -> row
    nextApptId,   \* the appointments id sequence
    sess,         \* per database session: the book/reschedule call in progress
    last,         \* the outcome of the last call that returned
    reminderCalls,\* appointment id -> calls of schedule_appointment_reminders
    calls,        \* number of calls of the engine made so far
    dispatched,   \* appointment id -> gap-fill tasks created for it by cancel
    tasks,        \* appointment id -> gap-fill tasks created and not yet run
    waitlist,     \* committed waitlist table: id -> row
    nextWaitId,   \* the waitlists id sequence
    sent,         \* the messages the latest gap-fill pass got sent, in order
    audit,        \* committed audit_logs rows: (owner, action) -> count
    lastPass,     \* what the last gap-fill task that ran returned
    found         \* the last find_available_slots call and what it returned

vars == <<now, appts, nextApptId, sess, last, reminderCalls, calls,
          dispatched, tasks, waitlist, nextWaitId, sent, audit, lastPass, found>>

----------------------------------------------------------------------------
(* Bounds of the model *)

\* request start times lie on a 20-minute grid 0..MaxSlotIdx after opening
MaxSlotIdx == 2
\* calls of the engine (book, reschedule, cancel, waitlist signup)
MaxCalls == 3
\* the dates asked of find_available_slots are 0..MaxDate (Monday onwards)
MaxDate == 2

----------------------------------------------------------------------------
(* Static tables: owners, settings, availabilities, blocks, services, clients *)

None == -1

Owners == {1, 2, 3, 4}
Sessions == {1, 2}

MinutesPerDay == 24 * 60

\* Owner.timezone as a fixed UTC offset in minutes (no DST change in the week)
TzOffset(o) == CASE o = 1 -> 120 [] o = 3 -> -300 [] OTHER -> 0

\* OwnerSetting row of an owner, or None (owner 2 has no settings row)
HasSettings(o) == o \in {1, 3, 4}
lead_time_min(o) == 60
cancel_window_hr(o) == 24
max_outreach_per_gap(o) == 2

\* Owner.quiet_hours_start / quiet_hours_end as local minutes of the day,
\* or None when not configured: owner 1 is quiet overnight 22:00-08:00, owner
\* 4 in the small hours 01:00-05:00
quiet_hours_start(o) == IF o = 1 THEN 22 * 60 ELSE IF o = 4 THEN 60 ELSE None
quiet_hours_end(o) == IF o = 1 THEN 8 * 60 ELSE IF o = 4 THEN 5 * 60 ELSE None

\* Availability rows of an owner: owners 1 and 2 open on Tuesday (weekday 1)
\* 09:00-10:00 local time, owner 4 on Tuesday 09:00-12:00 and on Friday
\* (weekday 4) evening 22:00-23:55; owner 2 has an inactive row for Wednesday;
\* owner 3 opens on Monday (weekday 0) 09:00-17:00.
\* Owners 2 and 4 share a timezone, so their opening hours start at the same
\* instant.
Availabilities(o) ==
    IF o = 3
    THEN {[weekday |-> 0, start_time |-> 9 * 60, end_time |-> 17 * 60, active |-> TRUE]}
    ELSE IF o = 4
    THEN {[weekday |-> 1, start_time |-> 9 * 60, end_time |-> 12 * 60, active |-> TRUE],
          [weekday |-> 4, start_time |-> 22 * 60, end_time |-> 23 * 60 + 55,
           active |-> TRUE]}
    ELSE {[weekday |-> 1, start_time |-> 9 * 60, end_time |-> 10 * 60, active |-> TRUE]}
         \cup (IF o = 2
               THEN {[weekday |-> 2, start_time |-> 9 * 60, end_time |-> 10 * 60,
                      active |-> FALSE]}
               ELSE {})

\* Block rows of an owner: owner 2 blocks Wednesday 09:20-09:30 local time,
\* owner 4 the Friday of the week after (date 11) 22:00-22:30.
Blocks(o) ==
    IF o = 2 THEN {[date |-> 2, start_time |-> 9 * 60 + 20, end_time |-> 9 * 60 + 30]}
    ELSE IF o = 4 THEN {[date |-> 11, start_time |-> 22 * 60, end_time |-> 22 * 60 + 30]}
    ELSE {}

\* Service rows
Services == {1, 2, 3, 4, 5, 6}
Service(s) ==
    CASE s = 1 -> [owner_id |-> 1, duration_min |-> 20, buffer_min |-> 10]
      [] s = 2 -> [owner_id |-> 1, duration_min |-> 20, buffer_min |-> 0]
      [] s = 3 -> [owner_id |-> 2, duration_min |-> 20, buffer_min |-> 10]
      [] s = 4 -> [owner_id |-> 3, duration_min |-> 30, buffer_min |-> 10]
      [] s = 5 -> [owner_id |-> 4, duration_min |-> 20, buffer_min |-> 10]
      [] OTHER -> [owner_id |-> 4, duration_min |-> 20, buffer_min |-> 0]

\* Service.price_cents
price_cents(s) == IF s = 2 THEN 2000 ELSE 3000

\* Client rows
Clients == {1, 2, 3, 4, 5, 6, 7, 8, 9}
Client(c) ==
    CASE c = 1 -> [owner_id |-> 1, opt_in_move_earlier |-> FALSE]
      [] c = 2 -> [owner_id |-> 1, opt_in_move_earlier |-> TRUE]
      [] c = 3 -> [owner_id |-> 2, opt_in_move_earlier |-> TRUE]
      [] c = 4 -> [owner_id |-> 1, opt_in_move_earlier |-> FALSE]
      [] c = 5 -> [owner_id |-> 3, opt_in_move_earlier |-> FALSE]
      [] c = 6 -> [owner_id |-> 4, opt_in_move_earlier |-> TRUE]
      [] OTHER -> [owner_id |-> 4, opt_in_move_earlier |-> FALSE]

----------------------------------------------------------------------------
(* app/utils/time.py *)

from_utc(dt, o) == dt + TzOffset(o)
to_utc(dt, o) == dt - TzOffset(o)
now_in_timezone(o) == from_utc(now, o)

\* datetime.date(), datetime.time() and datetime.weekday() of a local datetime
DateOf(local) == local \div MinutesPerDay
TimeOf(local) == local % MinutesPerDay
WeekdayOf(local) == DateOf(local) % 7

is_within_quiet_hours(check_time, quiet_start, quiet_end, o) ==
    IF quiet_start = None \/ quiet_end = None THEN FALSE
    ELSE LET local_time == TimeOf(from_utc(check_time, o))
         IN  IF quiet_start <= quiet_end
             THEN quiet_start <= local_time /\ local_time <= quiet_end
             ELSE local_time >= quiet_start \/ local_time <= quiet_end

----------------------------------------------------------------------------
(* Rows *)

\* bags of ids as functions id -> count
Count(bag, i) == IF i \in DOMAIN bag THEN bag[i] ELSE 0
Inc(bag, i) == (i :> Count(bag, i) + 1) @@ bag
Dec(bag, i) ==
    IF bag[i] = 1 THEN [j \in DOMAIN bag \ {i} |-> bag[j]]
    ELSE [bag EXCEPT ![i] = @ - 1]

Active == {"PENDING", "CONFIRMED"}

\* end_dt with the buffer added
NewAppointmentEndWithBuffer(o, c, s, start_dt, notes) ==
    [owner_id |-> o, client_id |-> c, service_id |-> s,
     start_dt |-> start_dt,
     end_dt |-> start_dt + Service(s).duration_min + Service(s).buffer_min,
     status |-> "PENDING", notes |-> notes]

NewAppointment(o, c, s, start_dt, notes) ==
    [owner_id |-> o, client_id |-> c, service_id |-> s,
     start_dt |-> start_dt, end_dt |-> start_dt + Service(s).duration_min,
     status |-> "PENDING", notes |-> notes]

----------------------------------------------------------------------------
(* app/services/policies.py: PolicyEnforcer.  A check is TRUE when it passes *)

\* a start exactly lead_time_min away refused too
check_lead_timeStrict(o, requested_start) ==
    IF ~HasSettings(o) THEN TRUE
    ELSE LET time_diff == from_utc(requested_start, o) - now_in_timezone(o)
         IN  ~(time_diff <= lead_time_min(o))

check_lead_time(o, requested_start) ==
    IF ~HasSettings(o) THEN TRUE
    ELSE LET time_diff == from_utc(requested_start, o) - now_in_timezone(o)
         IN  ~(time_diff < lead_time_min(o))

\* time_until is compared in hours: time_until < cancel_window_hr
CancelWindowAlwaysPasses(o, appointment) == TRUE

check_cancel_window(o, appointment) ==
    IF ~HasSettings(o) THEN TRUE
    ELSE LET minutes_until == from_utc(appointment.start_dt, o) - now_in_timezone(o)
         IN  ~(minutes_until < cancel_window_hr(o) * 60)

check_business_hours(o, requested_start, duration_minutes) ==
    LET start_local == from_utc(requested_start, o)
        end_local == start_local + duration_minutes
        rows == {r \in Availabilities(o) :
                    r.weekday = WeekdayOf(start_local) /\ r.active}
    IN  IF rows = {} THEN FALSE
        ELSE LET availability == CHOOSE r \in rows : TRUE
             IN  IF TimeOf(start_local) < availability.start_time THEN FALSE
                 ELSE IF TimeOf(end_local) > availability.end_time THEN FALSE
                 ELSE TRUE

\* The loop compares the timezone-aware start_local with the naive
\* datetime.combine(appointment_date, block.end_time): Python raises TypeError
\* on the first block of the date, before any overlap is decided.
check_blocked_time(o, requested_start, duration_minutes) ==
    LET appointment_date == DateOf(from_utc(requested_start, o))
        blocks == {b \in Blocks(o) : b.date = appointment_date}
    IN  IF blocks = {} THEN "ok" ELSE "TypeError"

\* The rows the conflict query returns
ConflictsAnyOwner(table, o, start_dt, end_dt, buffer_minutes, exclude_id) ==
    {i \in DOMAIN table :
        /\ table[i].status \in Active
        /\ table[i].start_dt < end_dt + buffer_minutes
        /\ table[i].end_dt > start_dt - buffer_minutes
        /\ (exclude_id # None => i # exclude_id)}

Conflicts(table, o, start_dt, end_dt, buffer_minutes, exclude_id) ==
    {i \in DOMAIN table :
        /\ table[i].owner_id = o
        /\ table[i].status \in Active
        /\ table[i].start_dt < end_dt + buffer_minutes
        /\ table[i].end_dt > start_dt - buffer_minutes
        /\ (exclude_id # None => i # exclude_id)}

\* exclude_appointment_id not applied
check_appointment_conflictsNoExclude(table, o, requested_start, duration_minutes, buffer_minutes, exclude_appointment_id) ==
    Conflicts(table, o, requested_start, requested_start + duration_minutes,
              buffer_minutes, None) = {}

check_appointment_conflicts(table, o, requested_start, duration_minutes, buffer_minutes, exclude_appointment_id) ==
    Conflicts(table, o, requested_start, requested_start + duration_minutes,
              buffer_minutes, exclude_appointment_id) = {}

\* conflicts looked at before the other three rules
validate_appointment_requestConflictsFirst(table, o, requested_start, duration_minutes, buffer_minutes, exclude_appointment_id) ==
    IF ~check_appointment_conflicts(table, o, requested_start, duration_minutes,
                                    buffer_minutes, exclude_appointment_id)
    THEN "conflict"
    ELSE IF ~check_lead_time(o, requested_start) THEN "lead_time"
    ELSE IF ~check_business_hours(o, requested_start, duration_minutes)
    THEN "business_hours"
    ELSE IF check_blocked_time(o, requested_start, duration_minutes) # "ok"
    THEN "blocked_time"
    ELSE "ok"

\* The first rule that fails, or "ok"
validate_appointment_request(table, o, requested_start, duration_minutes, buffer_minutes, exclude_appointment_id) ==
    IF ~check_lead_time(o, requested_start) THEN "lead_time"
    ELSE IF ~check_business_hours(o, requested_start, duration_minutes)
    THEN "business_hours"
    ELSE IF check_blocked_time(o, requested_start, duration_minutes) # "ok"
    THEN "blocked_time"
    ELSE IF ~check_appointment_conflicts(table, o, requested_start, duration_minutes,
                                         buffer_minutes, exclude_appointment_id)
    THEN "conflict"
    ELSE "ok"

----------------------------------------------------------------------------
(* Inputs *)

\* Tuesday 09:00 local time of owner o plus 20 minutes per grid step
SlotStart(o, k) == to_utc(MinutesPerDay + 9 * 60 + 20 * k, o)
Starts(o) == {SlotStart(o, k) : k \in 0..MaxSlotIdx}

\* The instants at which the clock is observed (owner 1 local time): Monday
\* 09:00 and 23:00, Tuesday 08:20
Clock == <<to_utc(9 * 60, 1), to_utc(23 * 60, 1), to_utc(MinutesPerDay + 8 * 60 + 20, 1)>>

\* who asks for what: (owner, client, service) of the booking requests
Requests == {[o |-> 1, c |-> 1, s |-> 1], [o |-> 1, c |-> 2, s |-> 2],
             [o |-> 2, c |-> 3, s |-> 3]}

Reasons == {"Client cancellation"}

----------------------------------------------------------------------------
(* Sessions *)

Idle == [pc |-> "idle", op |-> "none", id |-> None, owner |-> None,
         client |-> None, service |-> None, start |-> None]

NoResult == [n |-> 0, op |-> "none", out |-> "none", why |-> "none"]

\* the outcome a call returns to its caller; n flips at every return
Done(op, out, why) ==
    [n |-> 1 - last.n, op |-> op, out |-> out, why |-> why]

NoPass == [no |-> 0, ran |-> "none", order |-> <<>>, failed |-> {}]

NoSlots ==
    [service |-> None, start_date |-> None, end_date |-> None, max_slots |-> None,
     intent |-> "none", at |-> None, raised |-> "none", slots |-> <<>>]

Init ==
    /\ now = Clock[1]
    /\ appts = <<>>
    /\ nextApptId = 1
    /\ sess = [p \in Sessions |-> Idle]
    /\ last = NoResult
    /\ reminderCalls = <<>>
    /\ calls = 0
    /\ dispatched = <<>>
    /\ tasks = <<>>
    /\ waitlist = <<>>
    /\ nextWaitId = 1
    /\ sent = <<>>
    /\ audit = <<>>
    /\ lastPass = NoPass
    /\ found = NoSlots

\* time passes
Tick ==
    /\ \E k \in 1..Len(Clock) - 1 : now = Clock[k] /\ now' = Clock[k + 1]
    /\ UNCHANGED <<appts, nextApptId, sess, last, reminderCalls, calls,
                   dispatched, tasks, waitlist, nextWaitId, sent, audit, lastPass, found>>

----------------------------------------------------------------------------
(* app/services/scheduler.py: AppointmentScheduler.book_appointment *)

\* the table after the except branch has rolled the session back
BookRollbackKeepsRow(table, id, row) == table @@ (id :> row)

BookRollback(table, id, row) == table

\* lines 326-330: the composite check, on the rows committed so far
BookValidate(p, o, c, s, start_dt) ==
    /\ sess[p].pc = "idle"
    /\ calls < MaxCalls
    /\ calls' = calls + 1
    /\ LET v == validate_appointment_request(appts, o, start_dt,
                    Service(s).duration_min, Service(s).buffer_min, None)
       IN  IF v = "ok"
           THEN /\ sess' = [sess EXCEPT ![p] =
                      [pc |-> "validated", op |-> "book", id |-> None, owner |-> o,
                       client |-> c, service |-> s, start |-> start_dt]]
                /\ UNCHANGED <<last, appts>>
           ELSE /\ last' = Done("book", "SchedulingError", v)
                /\ UNCHANGED <<sess, appts>>
    /\ UNCHANGED <<now, nextApptId, reminderCalls, dispatched, tasks,
                   waitlist, nextWaitId, sent, audit, lastPass, found>>

\* the row the session has added (lines 333-345)
PendingRow(p) ==
    NewAppointment(sess[p].owner, sess[p].client, sess[p].service, sess[p].start, <<>>)

\* lines 347-360: flush (the id is drawn), then the final conflict query, which
\* sees the committed rows of the other sessions
BookFlushRecheck(p) ==
    /\ sess[p].pc = "validated" /\ sess[p].op = "book"
    /\ nextApptId' = nextApptId + 1
    /\ LET id == nextApptId
           row == PendingRow(p)
           conflicts == Conflicts(appts, row.owner_id, row.start_dt, row.end_dt,
                                  Service(row.service_id).buffer_min, id)
       IN  IF conflicts = {}
           THEN /\ sess' = [sess EXCEPT ![p].pc = "checked", ![p].id = id]
                /\ UNCHANGED <<last, appts>>
           ELSE /\ appts' = BookRollback(appts, id, row)
                /\ last' = Done("book", "SchedulingError", "recheck_conflict")
                /\ sess' = [sess EXCEPT ![p] = Idle]
    /\ UNCHANGED <<now, reminderCalls, calls, dispatched, tasks,
                   waitlist, nextWaitId, sent, audit, lastPass, found>>

\* schedule_appointment_reminders(appointment.id) is called
CallReminderScheduler(bag, id) == Inc(bag, id)

\* lines 366-374: what the caller gets once the row is committed;
\* reminder_raises is whether schedule_appointment_reminders (or its import)
\* raised, which the inner except branch logs
BookReturnPropagates(reminder_raises) == IF reminder_raises THEN "SchedulingError" ELSE "ok"

BookReturn(reminder_raises) == "ok"

ReminderLog(reminder_raises) == IF reminder_raises THEN "reminder_failed" ELSE "none"

\* lines 362-374: commit, then schedule_appointment_reminders, whose failure
\* is logged and swallowed
BookCommit(p, reminder_raises) ==
    /\ sess[p].pc = "checked" /\ sess[p].op = "book"
    /\ appts' = appts @@ (sess[p].id :> PendingRow(p))
    /\ reminderCalls' = CallReminderScheduler(reminderCalls, sess[p].id)
    /\ last' = Done("book", BookReturn(reminder_raises), ReminderLog(reminder_raises))
    /\ sess' = [sess EXCEPT ![p] = Idle]
    /\ UNCHANGED <<now, nextApptId, calls, dispatched, tasks,
                   waitlist, nextWaitId, sent, audit, lastPass, found>>

----------------------------------------------------------------------------
(* app/services/scheduler.py: AppointmentScheduler.reschedule_appointment *)

\* lines 406-409: start_dt and end_dt rewritten
RewrittenReopens(table, id, new_start_dt) ==
    [table EXCEPT ![id].start_dt = new_start_dt,
                  ![id].end_dt = new_start_dt + Service(table[id].service_id).duration_min,
                  ![id].status = "PENDING"]

Rewritten(table, id, new_start_dt) ==
    [table EXCEPT ![id].start_dt = new_start_dt,
                  ![id].end_dt = new_start_dt + Service(table[id].service_id).duration_min]

\* the table after the except branch has rolled the session back (lines 428-431)
RescheduleRollbackKeepsWrite(table, id, new_start_dt) == Rewritten(table, id, new_start_dt)

RescheduleRollback(table, id, new_start_dt) == table

\* lines 395-404: the composite check, excluding the appointment itself
RescheduleValidate(p, id, new_start_dt) ==
    /\ sess[p].pc = "idle"
    /\ id \in DOMAIN appts
    /\ calls < MaxCalls
    /\ calls' = calls + 1
    /\ LET a == appts[id]
           v == validate_appointment_request(appts, a.owner_id, new_start_dt,
                    Service(a.service_id).duration_min,
                    Service(a.service_id).buffer_min, id)
       IN  IF v = "ok"
           THEN /\ sess' = [sess EXCEPT ![p] =
                      [pc |-> "validated", op |-> "reschedule", id |-> id,
                       owner |-> a.owner_id, client |-> a.client_id,
                       service |-> a.service_id, start |-> new_start_dt]]
                /\ UNCHANGED <<last, appts>>
           ELSE /\ appts' = RescheduleRollback(appts, id, new_start_dt)
                /\ last' = Done("reschedule", "SchedulingError", v)
                /\ UNCHANGED sess
    /\ UNCHANGED <<now, nextApptId, reminderCalls, dispatched, tasks,
                   waitlist, nextWaitId, sent, audit, lastPass, found>>

\* lines 406-421: the in-memory rewrite, then the final conflict query
RescheduleRecheck(p) ==
    /\ sess[p].pc = "validated" /\ sess[p].op = "reschedule"
    /\ LET id == sess[p].id
           s == Service(sess[p].service)
           conflicts == Conflicts(appts, sess[p].owner, sess[p].start,
                                  sess[p].start + s.duration_min, s.buffer_min, id)
       IN  IF conflicts = {}
           THEN /\ sess' = [sess EXCEPT ![p].pc = "checked"]
                /\ UNCHANGED <<last, appts>>
           ELSE /\ appts' = RescheduleRollback(appts, id, sess[p].start)
                /\ last' = Done("reschedule", "SchedulingError", "recheck_conflict")
                /\ sess' = [sess EXCEPT ![p] = Idle]
    /\ UNCHANGED <<now, nextApptId, reminderCalls, calls, dispatched, tasks,
                   waitlist, nextWaitId, sent, audit, lastPass, found>>

\* line 423: commit (UPDATE of start_dt and end_dt of the row)
RescheduleCommit(p) ==
    /\ sess[p].pc = "checked" /\ sess[p].op = "reschedule"
    /\ appts' = Rewritten(appts, sess[p].id, sess[p].start)
    /\ last' = Done("reschedule", "ok", "none")
    /\ sess' = [sess EXCEPT ![p] = Idle]
    /\ UNCHANGED <<now, nextApptId, reminderCalls, calls, dispatched, tasks,
                   waitlist, nextWaitId, sent, audit, lastPass, found>>

----------------------------------------------------------------------------
(* app/services/scheduler.py: AppointmentScheduler.cancel_appointment *)

\* lines 456-457
Cancelled(table, id, reason) ==
    [table EXCEPT ![id].status = "CANCELLED",
                  ![id].notes = Append(table[id].notes, reason)]

\* lines 463-476: what the caller gets once the status is committed; loop is
\* whether asyncio.create_task found a running event loop
CancelReturnPropagates(loop) == IF loop THEN "ok" ELSE "SchedulingError"

CancelReturn(loop) == "ok"

\* the tasks created by asyncio.create_task (line 469)
CreateTask(bag, id, loop) == IF loop THEN Inc(bag, id) ELSE bag

\* the whole call, in a session of its own: it runs on a row its caller has
\* just loaded
Cancel(id, reason, loop) ==
    /\ id \in DOMAIN appts
    /\ calls < MaxCalls
    /\ calls' = calls + 1
    /\ IF check_cancel_window(appts[id].owner_id, appts[id])
       THEN /\ appts' = Cancelled(appts, id, reason)
            /\ dispatched' = CreateTask(dispatched, id, loop)
            /\ tasks' = CreateTask(tasks, id, loop)
            /\ last' = Done("cancel", CancelReturn(loop), "none")
       ELSE /\ last' = Done("cancel", "SchedulingError", "cancel_window")
            /\ UNCHANGED <<appts, dispatched, tasks>>
    /\ UNCHANGED <<now, nextApptId, sess, reminderCalls,
                   waitlist, nextWaitId, sent, audit, lastPass, found>>

----------------------------------------------------------------------------
(* app/services/waitlist.py: WaitlistManager.add_to_waitlist *)

\* lines 45-50: the rows the query for an existing entry matches
ActiveEntriesNone(wl, o, c, s, utcnow) == {}

ActiveEntries(wl, o, c, s, utcnow) ==
    {e \in DOMAIN wl :
        /\ wl[e].owner_id = o
        /\ wl[e].client_id = c
        /\ wl[e].service_id = s
        /\ wl[e].window_end_dt >= utcnow}

\* the whole call: an active entry of the same owner, client and service is
\* updated, otherwise a row is inserted
add_to_waitlist(o, c, s, window_start, window_end, priority) ==
    /\ calls < MaxCalls
    /\ calls' = calls + 1
    /\ LET existing == ActiveEntries(waitlist, o, c, s, now)
       IN  IF existing # {}
           THEN /\ \E e \in existing :
                      waitlist' = [waitlist EXCEPT
                          ![e].window_start_dt = window_start,
                          ![e].window_end_dt = window_end,
                          ![e].priority = IF @ > priority THEN @ ELSE priority]
                /\ UNCHANGED nextWaitId
           ELSE /\ waitlist' = waitlist @@ (nextWaitId :>
                      [owner_id |-> o, client_id |-> c, service_id |-> s,
                       window_start_dt |-> window_start, window_end_dt |-> window_end,
                       priority |-> priority, notify_count |-> 0,
                       last_notified_at |-> None, created_at |-> now])
                /\ nextWaitId' = nextWaitId + 1
    /\ UNCHANGED <<now, appts, nextApptId, sess, last, reminderCalls, dispatched,
                   tasks, sent, audit, lastPass, found>>

\* remove_from_waitlist (lines 79-93) on an entry that exists
remove_from_waitlist(waitlist_id) ==
    /\ waitlist_id \in DOMAIN waitlist
    /\ waitlist' = [e \in DOMAIN waitlist \ {waitlist_id} |-> waitlist[e]]
    /\ UNCHANGED <<now, appts, nextApptId, sess, last, reminderCalls, calls, dispatched,
                   tasks, nextWaitId, sent, audit, lastPass, found>>

\* _parse_waitlist_window (lines 190-227): the window of a preference
Preferences == {"today", "tomorrow", "this_week"}

parse_waitlist_window(preference, o) ==
    LET today == DateOf(now_in_timezone(o))
        last_minute == 23 * 60 + 59
    IN  IF preference = "today"
        THEN <<now, to_utc(today * MinutesPerDay + last_minute, o)>>
        ELSE IF preference = "tomorrow"
        THEN <<to_utc((today + 1) * MinutesPerDay, o),
               to_utc((today + 1) * MinutesPerDay + last_minute, o)>>
        ELSE IF preference = "this_week"
        THEN <<now, to_utc((today + 6 - WeekdayOf(now_in_timezone(o))) * MinutesPerDay
                              + last_minute, o)>>
        ELSE <<now, now + 7 * MinutesPerDay>>

----------------------------------------------------------------------------
(* app/services/optimizer.py: OptimizationEngine *)

Range(q) == {q[i] : i \in 1..Len(q)}

\* the orders in which a query may return the rows of S: every permutation
\* that before (the ORDER BY, the pairs it puts strictly in order) does not
\* contradict
Orderings(S, before) ==
    {q \in [1..Cardinality(S) -> S] :
        /\ \A i, j \in 1..Cardinality(S) : i # j => q[i] # q[j]
        /\ \A i, j \in 1..Cardinality(S) : i < j => <<q[j], q[i]>> \notin before}

\* LIMIT n
LimitNone(q, n) == q

Limit(q, n) == SubSeq(q, 1, IF Len(q) < n THEN Len(q) ELSE n)

\* ORDER BY priority DESC, created_at ASC (lines 148-150)
RankedBeforeAscending(wl, a, b) ==
    \/ wl[a].priority < wl[b].priority
    \/ wl[a].priority = wl[b].priority /\ wl[a].created_at < wl[b].created_at

RankedBefore(wl, a, b) ==
    \/ wl[a].priority > wl[b].priority
    \/ wl[a].priority = wl[b].priority /\ wl[a].created_at < wl[b].created_at

\* lines 138-145: the rows the waitlist query matches
MatchingEntriesEligible(wl, o, gap_start, gap_end, service_id) ==
    {e \in DOMAIN wl :
        /\ wl[e].owner_id = o
        /\ wl[e].window_start_dt <= gap_start
        /\ wl[e].window_end_dt >= gap_end
        /\ (service_id # None => wl[e].service_id = service_id)
        /\ wl[e].notify_count < 3
        /\ (wl[e].last_notified_at = None \/ now - wl[e].last_notified_at >= 2 * 60)}

MatchingEntriesOverlapping(wl, o, gap_start, gap_end, service_id) ==
    {e \in DOMAIN wl :
        /\ wl[e].owner_id = o
        /\ wl[e].window_start_dt < gap_end
        /\ wl[e].window_end_dt > gap_start
        /\ (service_id # None => wl[e].service_id = service_id)}

MatchingEntries(wl, o, gap_start, gap_end, service_id) ==
    {e \in DOMAIN wl :
        /\ wl[e].owner_id = o
        /\ wl[e].window_start_dt <= gap_start
        /\ wl[e].window_end_dt >= gap_end
        /\ (service_id # None => wl[e].service_id = service_id)}

\* lines 157-164: an entry the loop skips
ThrottledByCooldownOnly(row, utcnow) ==
    row.last_notified_at # None /\ utcnow - row.last_notified_at < 2 * 60

Throttled(row, utcnow) ==
    \/ row.notify_count >= 3
    \/ row.last_notified_at # None /\ utcnow - row.last_notified_at < 2 * 60

\* lines 161-162: last_notified_at is a timezone-aware column, so a driver that
\* returns aware datetimes (aware = TRUE, PostgreSQL) makes the subtraction
\* datetime.utcnow() - entry.last_notified_at raise TypeError at the first entry
\* that has been notified before; the loop gets through the entries before it.
Examined(wl, entries, aware) ==
    LET raising == {k \in 1..Len(entries) :
                       /\ wl[entries[k]].notify_count < 3
                       /\ wl[entries[k]].last_notified_at # None}
    IN  IF aware /\ raising # {}
        THEN SubSeq(entries, 1, (CHOOSE k \in raising : \A l \in raising : k <= l) - 1)
        ELSE entries

\* lines 153-174: the entries of the query result (in its order) that are
\* notified; ok holds the entries for which send_whatsapp returns True
NotifiedFirstOnly(wl, entries, ok, utcnow) ==
    LET q == SelectSeq(entries, LAMBDA e : ~Throttled(wl[e], utcnow) /\ e \in ok)
    IN  Limit(q, 1)

Notified(wl, entries, ok, utcnow) ==
    SelectSeq(entries, LAMBDA e : ~Throttled(wl[e], utcnow) /\ e \in ok)

\* lines 171-174: notification tracking of the notified entries
TrackedCountOnly(wl, notified, utcnow) ==
    [e \in DOMAIN wl |->
        IF e \in notified THEN [wl[e] EXCEPT !.notify_count = @ + 1] ELSE wl[e]]

Tracked(wl, notified, utcnow) ==
    [e \in DOMAIN wl |->
        IF e \in notified
        THEN [wl[e] EXCEPT !.notify_count = @ + 1, !.last_notified_at = utcnow]
        ELSE wl[e]]

\* lines 186-201: the appointments the earlier-move query matches
MoveCandidates(table, o, gap_start, gap_end, service_id) ==
    LET gap_date == DateOf(from_utc(gap_start, o))
        day_start == to_utc(gap_date * MinutesPerDay, o)
        day_end == to_utc(gap_date * MinutesPerDay + MinutesPerDay - 1, o)
    IN  {i \in DOMAIN table :
            /\ table[i].owner_id = o
            /\ table[i].start_dt > gap_end
            /\ table[i].start_dt >= day_start
            /\ table[i].start_dt <= day_end
            /\ table[i].status \in Active
            /\ Client(table[i].client_id).opt_in_move_earlier
            /\ (service_id # None => table[i].service_id = service_id)}

\* lines 208-216: the candidates (in query order) that get an offer
Offered(table, candidates, ok, gap_start, gap_end) ==
    SelectSeq(candidates, LAMBDA i :
        /\ gap_end - gap_start >= Service(table[i].service_id).duration_min
        /\ i \in ok)

Messages(kind, ids) == [k \in 1..Len(ids) |-> [kind |-> kind, to |-> ids[k]]]

AuditRow(o, action) == [owner_id |-> o, action |-> action]

\* fill_gap line 94
InQuietHoursNever(o, utcnow) == FALSE

InQuietHours(o, utcnow) ==
    is_within_quiet_hours(utcnow, quiet_hours_start(o), quiet_hours_end(o), o)

MaxOutreach(o) == IF HasSettings(o) THEN max_outreach_per_gap(o) ELSE 5

\* One gap-fill task (handle_appointment_cancellation, lines 744-747) from start
\* to end: on_appointment_cancelled, then fill_gap.  fail names the audit write
\* whose commit raises, aware whether the driver returns timezone-aware
\* datetimes; okW and okA are the recipients whose send succeeds.
\* lastPass records how the pass ended: "raised_at_start" (the first audit
\* write raised), "deferred", "raised_in_loop" (TypeError in the waitlist
\* loop), "completed", or "raised_at_end" (the last audit write raised, after
\* the offers went out).
RunCascade(id, fail, aware) ==
    /\ Count(tasks, id) > 0
    /\ tasks' = Dec(tasks, id)
    /\ LET a == appts[id]
           o == a.owner_id
           pass == lastPass.no + 1
       IN  IF fail = "gap_fill_triggered"
           THEN /\ lastPass' = [no |-> pass, ran |-> "raised_at_start", order |-> <<>>,
                                failed |-> {}]
                /\ sent' = <<>>
                /\ UNCHANGED <<waitlist, audit>>
           ELSE IF InQuietHours(o, now)
           THEN /\ audit' = Inc(audit, AuditRow(o, "gap_fill_triggered"))
                /\ lastPass' = [no |-> pass, ran |-> "deferred", order |-> <<>>,
                                failed |-> {}]
                /\ sent' = <<>>
                /\ UNCHANGED waitlist
           ELSE LET matching == MatchingEntries(waitlist, o, a.start_dt, a.end_dt,
                                                a.service_id)
                    movable == MoveCandidates(appts, o, a.start_dt, a.end_dt,
                                              a.service_id)
                IN
                \E wq \in Orderings(matching,
                                    {r \in matching \X matching :
                                        RankedBefore(waitlist, r[1], r[2])}),
                   aq \in Orderings(movable,
                                    {r \in movable \X movable :
                                        appts[r[1]].start_dt < appts[r[2]].start_dt}) :
                LET entries == Limit(wq, MaxOutreach(o))
                    examined == Examined(waitlist, entries, aware)
                    raised == examined # entries
                    candidates == Limit(aq, MaxOutreach(o))
                IN  \E okW \in SUBSET Range(entries), okA \in SUBSET Range(candidates) :
                    LET notified == Notified(waitlist, examined, okW, now)
                        offered == IF raised THEN <<>>
                                   ELSE Offered(appts, candidates, okA,
                                                a.start_dt, a.end_dt)
                        logged == Inc(audit, AuditRow(o, "gap_fill_triggered"))
                    IN  /\ waitlist' = Tracked(waitlist, Range(notified), now)
                        /\ sent' = Messages("waitlist_offer", notified)
                                      \o Messages("move_offer", offered)
                        /\ audit' = IF raised \/ fail = "gap_fill_completed" THEN logged
                                    ELSE Inc(logged, AuditRow(o, "gap_fill_completed"))
                        /\ lastPass' = [no |-> pass,
                                        ran |-> IF raised THEN "raised_in_loop"
                                                ELSE IF fail = "gap_fill_completed"
                                                THEN "raised_at_end" ELSE "completed",
                                        order |-> entries,
                                        failed |-> Range(entries) \ okW]
    /\ UNCHANGED <<now, appts, nextApptId, sess, last, reminderCalls, calls,
                   dispatched, nextWaitId, found>>

AuditFailures == {"none", "gap_fill_triggered", "gap_fill_completed"}

Cascade ==
    \E id \in DOMAIN tasks, fail \in AuditFailures :
        \E aware \in BOOLEAN : RunCascade(id, fail, aware)

----------------------------------------------------------------------------
(* app/services/optimizer.py: the answers to offers.  Each handler runs from
   start to end in a database session of its own. *)

\* book_appointment run in one piece on the committed rows: the rule of the
\* composite check that fails, "recheck_conflict" from the final query, or "ok"
BookOutcome(table, id, o, s, start_dt) ==
    LET v == validate_appointment_request(table, o, start_dt, Service(s).duration_min,
                                          Service(s).buffer_min, None)
    IN  IF v # "ok" THEN v
        ELSE IF Conflicts(table, o, start_dt, start_dt + Service(s).duration_min,
                          Service(s).buffer_min, id) # {}
        THEN "recheck_conflict"
        ELSE "ok"

\* reschedule_appointment run in one piece on the committed rows
RescheduleOutcome(table, id, new_start_dt) ==
    LET s == Service(table[id].service_id)
        v == validate_appointment_request(table, table[id].owner_id, new_start_dt,
                                          s.duration_min, s.buffer_min, id)
    IN  IF v # "ok" THEN v
        ELSE IF Conflicts(table, table[id].owner_id, new_start_dt,
                          new_start_dt + s.duration_min, s.buffer_min, id) # {}
        THEN "recheck_conflict"
        ELSE "ok"

\* the "success" entry of the dict a handler returns: the except branch (lines
\* 378-380, 415-417) answers every exception, that of the scheduler and that
\* of send_whatsapp (MessagingError, messaging.py:57-58), with an error
AcceptReplyIgnoresFailure(outcome, send_raises) ==
    IF send_raises THEN "error" ELSE "success"

AcceptReply(outcome, send_raises) ==
    IF outcome = "ok" /\ ~send_raises THEN "success" ELSE "error"

AcceptError(outcome, send_raises) ==
    IF outcome # "ok" THEN outcome
    ELSE IF send_raises THEN "MessagingError" ELSE "none"

\* _book_from_waitlist (lines 336-380)
book_from_waitlist(waitlist_entry_id, gap_start, send_raises) ==
    /\ calls < MaxCalls
    /\ calls' = calls + 1
    /\ IF waitlist_entry_id \notin DOMAIN waitlist
       THEN /\ last' = Done("accept_waitlist", "error", "not_found")
            /\ UNCHANGED <<appts, nextApptId, reminderCalls, waitlist>>
       ELSE LET entry == waitlist[waitlist_entry_id]
                id == nextApptId
                row == NewAppointment(entry.owner_id, entry.client_id, entry.service_id,
                                      gap_start, <<"Booked from waitlist via gap-fill">>)
                outcome == BookOutcome(appts, id, entry.owner_id, entry.service_id,
                                       gap_start)
            IN  /\ nextApptId' = IF outcome \in {"ok", "recheck_conflict"}
                                 THEN nextApptId + 1 ELSE nextApptId
                /\ IF outcome = "ok"
                   THEN /\ appts' = appts @@ (id :> row)
                        /\ reminderCalls' = CallReminderScheduler(reminderCalls, id)
                        /\ waitlist' = [e \in DOMAIN waitlist \ {waitlist_entry_id} |->
                                            waitlist[e]]
                   ELSE /\ appts' = BookRollback(appts, id, row)
                        /\ UNCHANGED <<reminderCalls, waitlist>>
                /\ last' = Done("accept_waitlist", AcceptReply(outcome, send_raises),
                                AcceptError(outcome, send_raises))
    /\ UNCHANGED <<now, sess, dispatched, tasks, nextWaitId, sent, audit, lastPass,
                   found>>

\* _accept_earlier_move (lines 382-417) on an appointment that exists
accept_earlier_move(appointment_id, new_start_time, send_raises) ==
    /\ appointment_id \in DOMAIN appts
    /\ calls < MaxCalls
    /\ calls' = calls + 1
    /\ LET outcome == RescheduleOutcome(appts, appointment_id, new_start_time)
       IN  /\ appts' = IF outcome = "ok"
                       THEN Rewritten(appts, appointment_id, new_start_time)
                       ELSE RescheduleRollback(appts, appointment_id, new_start_time)
           /\ last' = Done("accept_move", AcceptReply(outcome, send_raises),
                           AcceptError(outcome, send_raises))
    /\ UNCHANGED <<now, nextApptId, sess, reminderCalls, dispatched, tasks, waitlist,
                   nextWaitId, sent, audit, lastPass, found>>

\* _decline_waitlist_offer (lines 419-427): the entry, when there is one, is
\* looked up and the decline logged
decline_waitlist_offer(waitlist_entry_id) ==
    /\ last' = Done("decline_waitlist", "success", "none")
    /\ UNCHANGED <<now, appts, nextApptId, sess, reminderCalls, calls, dispatched, tasks,
                   waitlist, nextWaitId, sent, audit, lastPass, found>>

\* _decline_earlier_move (lines 429-436)
decline_earlier_move(appointment_id) ==
    /\ last' = Done("decline_move", "success", "none")
    /\ UNCHANGED <<now, appts, nextApptId, sess, reminderCalls, calls, dispatched, tasks,
                   waitlist, nextWaitId, sent, audit, lastPass, found>>

\* the starts of the gaps that offers were made for: those of the cancelled
\* appointments
GapStarts == {appts[i].start_dt : i \in {j \in DOMAIN appts : appts[j].status = "CANCELLED"}}

----------------------------------------------------------------------------
(* app/utils/time.py: get_time_slots_for_day *)

\* the while loop from current on; times are minutes of the day
RECURSIVE TimeSlotsFrom(_, _, _, _)
TimeSlotsFrom(current, end_dt, slot_duration, buffer_duration) ==
    IF current + slot_duration <= end_dt
    THEN <<[start |-> TimeOf(current), end |-> TimeOf(current + slot_duration)]>>
         \o TimeSlotsFrom(current + slot_duration + buffer_duration, end_dt,
                          slot_duration, buffer_duration)
    ELSE <<>>

get_time_slots_for_dayNoBuffer(start_time, end_time, duration_minutes, buffer_minutes) == TimeSlotsFrom(start_time, end_time, duration_minutes, 0)

get_time_slots_for_day(start_time, end_time, duration_minutes, buffer_minutes) == TimeSlotsFrom(start_time, end_time, duration_minutes, buffer_minutes)

----------------------------------------------------------------------------
(* app/services/scheduler.py: SlotFinder.  Dates are days since the Monday of
   the modelled week, in the owner's local calendar. *)

\* lines 98-115: the TimeSlot of a potential slot of target_date
TimeSlot(o, s, target_date, slot_start_time) ==
    LET slot_start_utc == to_utc(target_date * MinutesPerDay + slot_start_time, o)
    IN  [start_dt |-> slot_start_utc,
         end_dt |-> slot_start_utc + Service(s).duration_min,
         service_id |-> s, price_cents |-> price_cents(s)]

\* every row of the weekday taken, no slot validated
find_daily_slotsUnchecked(table, o, s, target_date) ==
    LET rows == {r \in Availabilities(o) : r.weekday = target_date % 7}
    IN  IF rows = {} THEN [raised |-> "none", slots |-> <<>>]
        ELSE LET availability == CHOOSE r \in rows : TRUE
                 potential_slots ==
                     get_time_slots_for_day(availability.start_time, availability.end_time,
                                            Service(s).duration_min, Service(s).buffer_min)
             IN  [raised |-> "none",
                  slots |-> [k \in 1..Len(potential_slots) |->
                                TimeSlot(o, s, target_date, potential_slots[k].start)]]

\* _find_daily_slots: the slots of target_date that pass the composite check.
\* Only PolicyViolation is caught (line 118): the TypeError of
\* check_blocked_time leaves the loop and the call.
find_daily_slots(table, o, s, target_date) ==
    LET rows == {r \in Availabilities(o) : r.weekday = target_date % 7 /\ r.active}
    IN  IF rows = {} THEN [raised |-> "none", slots |-> <<>>]
        ELSE LET availability == CHOOSE r \in rows : TRUE
                 potential_slots ==
                     get_time_slots_for_day(availability.start_time, availability.end_time,
                                            Service(s).duration_min, Service(s).buffer_min)
                 all == [k \in 1..Len(potential_slots) |->
                            TimeSlot(o, s, target_date, potential_slots[k].start)]
                 verdict(slot) ==
                     validate_appointment_request(table, o, slot.start_dt,
                         Service(s).duration_min, Service(s).buffer_min, None)
             IN  IF \E k \in 1..Len(all) : verdict(all[k]) = "blocked_time"
                 THEN [raised |-> "TypeError", slots |-> <<>>]
                 ELSE [raised |-> "none",
                       slots |-> SelectSeq(all, LAMBDA slot : verdict(slot) = "ok")]

\* lines 53-65: the day loop of find_available_slots
RECURSIVE DayLoop(_, _, _, _, _, _, _)
DayLoop(table, o, s, current_date, end_date, max_slots, available_slots) ==
    IF current_date <= end_date /\ Len(available_slots) < max_slots
    THEN LET daily == find_daily_slots(table, o, s, current_date)
             extended == available_slots \o daily.slots
         IN  IF daily.raised # "none" THEN daily
             ELSE IF Len(extended) >= max_slots
             THEN [raised |-> "none", slots |-> SubSeq(extended, 1, max_slots)]
             ELSE DayLoop(table, o, s, current_date + 1, end_date, max_slots, extended)
    ELSE [raised |-> "none", slots |-> available_slots]

RemoveAt(q, k) == SubSeq(q, 1, k - 1) \o SubSeq(q, k + 1, Len(q))

\* sorted(q, key=...), which is stable; before holds the pairs of elements the
\* key puts strictly in order
RECURSIVE Sorted(_, _)
Sorted(q, before) ==
    IF q = <<>> THEN <<>>
    ELSE LET minimal == {i \in 1..Len(q) :
                            \A j \in 1..Len(q) : <<q[j], q[i]>> \notin before}
             k == CHOOSE i \in minimal : \A j \in minimal : i <= j
         IN  <<q[k]>> \o Sorted(RemoveAt(q, k), before)

\* key=lambda s: s.start_dt
ByStart(slots) ==
    {r \in Range(slots) \X Range(slots) : r[1].start_dt < r[2].start_dt}

\* get_revenue_density(a) > get_revenue_density(b), the quotients
\* price_cents / max(duration_min + buffer_min, 1) compared exactly
DenserThan(a, b) ==
    LET total_time(slot) ==
            LET sum == Service(slot.service_id).duration_min
                          + Service(slot.service_id).buffer_min
            IN  IF sum > 1 THEN sum ELSE 1
    IN  price_cents(a.service_id) * total_time(b) > price_cents(b.service_id) * total_time(a)

\* key=lambda s: (-get_revenue_density(s), s.start_dt)
ByDensityThenStart(slots) ==
    {r \in Range(slots) \X Range(slots) :
        \/ DenserThan(r[1], r[2])
        \/ ~DenserThan(r[2], r[1]) /\ r[1].start_dt < r[2].start_dt}

\* _slots_are_close with max_gap_hours = 2.0
slots_are_close(slot1, slot2) ==
    LET diff == slot2.start_dt - slot1.start_dt
    IN  (IF diff < 0 THEN -diff ELSE diff) <= 2 * 60

\* lines 163-170: the selection loop of _optimize_for_profit
RECURSIVE PackClose(_, _, _)
PackClose(sorted_slots, selected_slots, max_slots) ==
    IF sorted_slots = <<>> \/ Len(selected_slots) >= max_slots THEN selected_slots
    ELSE LET slot == Head(sorted_slots)
         IN  PackClose(Tail(sorted_slots),
                       IF \/ selected_slots = <<>>
                          \/ slots_are_close(selected_slots[Len(selected_slots)], slot)
                       THEN Append(selected_slots, slot) ELSE selected_slots,
                       max_slots)

optimize_for_profit(slots, max_slots) ==
    Limit(PackClose(Sorted(slots, ByDensityThenStart(slots)), <<>>, max_slots), max_slots)

\* _optimize_for_balance; reached with max_slots >= 1 only
optimize_for_balance(slots, max_slots) ==
    LET sorted_slots == Sorted(slots, ByStart(slots))
    IN  IF Len(slots) <= max_slots THEN sorted_slots
        ELSE IF max_slots = 1 THEN <<sorted_slots[1]>>
        ELSE LET step == Len(sorted_slots) \div max_slots
                 stride == IF step > 1 THEN step ELSE 1
                 picked == [k \in 1..((Len(sorted_slots) + stride - 1) \div stride) |->
                               sorted_slots[(k - 1) * stride + 1]]
             IN  Limit(picked, max_slots)

\* lines 211-220: score, day and slots of every local date, dates in the order
\* in which their first slot appears
DayScores(o, slots) ==
    LET day(slot) == DateOf(from_utc(slot.start_dt, o))
        firsts == SelectSeq([k \in 1..Len(slots) |-> k],
                            LAMBDA k : \A j \in 1..(k - 1) : day(slots[j]) # day(slots[k]))
    IN  [i \in 1..Len(firsts) |->
            LET day_slots == SelectSeq(slots, LAMBDA x : day(x) = day(slots[firsts[i]]))
                time_span == day_slots[Len(day_slots)].start_dt - day_slots[1].start_dt
            IN  [score |-> Len(day_slots)
                              + (IF Len(day_slots) > 1 /\ time_span < 4 * 60 THEN 2 ELSE 0),
                 day |-> day(slots[firsts[i]]),
                 day_slots |-> day_slots]]

\* lines 226-236: slots taken from the best days first
RECURSIVE TakeDays(_, _, _)
TakeDays(day_scores, selected_slots, max_slots) ==
    IF day_scores = <<>> \/ Len(selected_slots) >= max_slots THEN selected_slots
    ELSE LET day_slots == Sorted(Head(day_scores).day_slots, ByStart(Head(day_scores).day_slots))
             remaining_slots == max_slots - Len(selected_slots)
         IN  TakeDays(Tail(day_scores),
                      selected_slots \o Limit(day_slots, remaining_slots), max_slots)

optimize_for_free_time(o, slots, max_slots) ==
    LET day_scores == DayScores(o, slots)
        by_score == {r \in Range(day_scores) \X Range(day_scores) : r[1].score > r[2].score}
        selected_slots == TakeDays(Sorted(day_scores, by_score), <<>>, max_slots)
    IN  Limit(Sorted(selected_slots, ByStart(selected_slots)), max_slots)

\* Owner.default_intent
IntentModes == {"PROFIT", "BALANCED", "FREE_TIME"}

\* _optimize_slots
optimize_slots(o, default_intent, slots, max_slots) ==
    IF slots = <<>> THEN <<>>
    ELSE IF default_intent = "PROFIT" THEN optimize_for_profit(slots, max_slots)
    ELSE IF default_intent = "BALANCED" THEN optimize_for_balance(slots, max_slots)
    ELSE IF default_intent = "FREE_TIME" THEN optimize_for_free_time(o, slots, max_slots)
    ELSE optimize_for_balance(slots, max_slots)

find_available_slots(table, o, s, start_date, end_date, max_slots, default_intent) ==
    LET looped == DayLoop(table, o, s, start_date, end_date, max_slots, <<>>)
    IN  IF looped.raised # "none" THEN looped
        ELSE [raised |-> "none",
              slots |-> optimize_slots(o, default_intent, looped.slots, max_slots)]

\* the call of find_available_slots that is asked for in found, for a service
\* of its owner, on the rows committed so far
FindSlots ==
    /\ found.service # None /\ found.at = None
    /\ LET out == find_available_slots(appts, Service(found.service).owner_id,
                                       found.service, found.start_date, found.end_date,
                                       found.max_slots, found.intent)
       IN  found' = [found EXCEPT !.at = now, !.raised = out.raised, !.slots = out.slots]
    /\ UNCHANGED <<now, appts, nextApptId, sess, last, reminderCalls, calls,
                   dispatched, tasks, waitlist, nextWaitId, sent, audit, lastPass>>

----------------------------------------------------------------------------

\* Sessions are interchangeable: session 2 is the one that starts a call while
\* session 1 has a call in progress.
MayStart(p) == p = 1 \/ sess[1].pc # "idle"

SchedulerStep(p) ==
    \/ \E r \in Requests :
          \E start_dt \in Starts(r.o) :
              MayStart(p) /\ BookValidate(p, r.o, r.c, r.s, start_dt)
    \/ BookFlushRecheck(p)
    \/ BookCommit(p, FALSE)
    \/ \E id \in DOMAIN appts :
          \E start_dt \in Starts(appts[id].owner_id) :
              MayStart(p) /\ RescheduleValidate(p, id, start_dt)
    \/ RescheduleRecheck(p)
    \/ RescheduleCommit(p)

Next ==
    \/ Tick
    \/ \E p \in Sessions : SchedulerStep(p)
    \/ \E id \in DOMAIN appts, reason \in Reasons, loop \in BOOLEAN :
          Cancel(id, reason, loop)

\* The scheduler under two concurrent sessions.  The gap-fill tasks that
\* cancellations create stay queued here; SpecCascade below runs them.
\* The reminder scheduler does not fail here; under SpecOwners it may.
Spec == Init /\ [][Next]_vars

----------------------------------------------------------------------------
(* The gap-fill scenario: a day with two appointments of owner 1 and one
   client already waiting, as the gap-fill set-up scripts prepare it *)

\* the waiting windows asked for: Tuesday from 08:00 or from 09:20, to 18:00
\* (owner 1 local time)
WindowFrom8 == to_utc(MinutesPerDay + 8 * 60, 1)
WindowFrom920 == to_utc(MinutesPerDay + 9 * 60 + 20, 1)
WindowEnd == to_utc(MinutesPerDay + 18 * 60, 1)

\* (owner, client, service, window start, priority) of the waitlist requests
WaitRequests ==
    {[o |-> 1, c |-> c, s |-> 1, from |-> WindowFrom8, priority |-> priority] :
        c \in {1, 4}, priority \in {0, 1}}
    \cup {[o |-> 1, c |-> 2, s |-> 1, from |-> WindowFrom920, priority |-> 0],
          [o |-> 1, c |-> 2, s |-> 2, from |-> WindowFrom8, priority |-> 0]}

InitCascade ==
    /\ now = Clock[1]
    /\ appts = (1 :> [NewAppointment(1, 1, 1, SlotStart(1, 0), <<>>)
                         EXCEPT !.status = "CONFIRMED"])
            @@ (2 :> NewAppointment(1, 2, 1, SlotStart(1, 2), <<>>))
    /\ nextApptId = 3
    /\ sess = [p \in Sessions |-> Idle]
    /\ last = NoResult
    /\ reminderCalls = (1 :> 1) @@ (2 :> 1)
    /\ calls = 0
    /\ dispatched = <<>>
    /\ tasks = <<>>
    /\ waitlist = (1 :> [owner_id |-> 1, client_id |-> 2, service_id |-> 1,
                         window_start_dt |-> WindowFrom8,
                         window_end_dt |-> WindowEnd,
                         priority |-> 0, notify_count |-> 0,
                         last_notified_at |-> None, created_at |-> Clock[1]])
    /\ nextWaitId = 2
    /\ sent = <<>>
    /\ audit = <<>>
    /\ lastPass = NoPass
    /\ found = NoSlots

NextCascade ==
    \/ Tick
    \/ \E r \in WaitRequests :
          add_to_waitlist(r.o, r.c, r.s, r.from, WindowEnd, r.priority)
    \/ \E id \in DOMAIN appts, reason \in Reasons, loop \in BOOLEAN :
          Cancel(id, reason, loop)
    \/ Cascade

SpecCascade == InitCascade /\ [][NextCascade]_vars

----------------------------------------------------------------------------
(* Slot finding: find_available_slots asked at some instant, over some table *)

\* the instants at which a behaviour starts: Monday 08:00 local time of
\* owner 3, and the clock's Monday 09:00 and Tuesday 08:20 of owner 1
SlotInstants == {to_utc(8 * 60, 3), Clock[1], Clock[3]}

\* the appointments committed when the slots are asked for: none, the two of
\* the gap-fill scenario, or one of owner 3 on Monday 10:20 local time
SlotTables ==
    {<<>>,
     (1 :> [NewAppointment(1, 1, 1, SlotStart(1, 0), <<>>) EXCEPT !.status = "CONFIRMED"])
        @@ (2 :> NewAppointment(1, 2, 1, SlotStart(1, 2), <<>>)),
     (1 :> NewAppointment(3, 5, 4, to_utc(10 * 60 + 20, 3), <<>>))}

\* max_slots of the calls; 13 exceeds the slots of any one day
SlotCounts == {0, 1, 2, 13}

\* the calls asked for, not yet made
SlotRequests ==
    {[NoSlots EXCEPT !.service = s, !.start_date = start_date, !.end_date = end_date,
                     !.max_slots = max_slots, !.intent = default_intent] :
        s \in Services, start_date \in 0..MaxDate, end_date \in 0..MaxDate,
        max_slots \in SlotCounts, default_intent \in IntentModes}

InitSlots ==
    /\ now \in SlotInstants
    /\ appts \in SlotTables
    /\ nextApptId = Cardinality(DOMAIN appts) + 1
    /\ sess = [p \in Sessions |-> Idle]
    /\ last = NoResult
    /\ reminderCalls = [i \in DOMAIN appts |-> 1]
    /\ calls = 0
    /\ dispatched = <<>>
    /\ tasks = <<>>
    /\ waitlist = <<>>
    /\ nextWaitId = 1
    /\ sent = <<>>
    /\ audit = <<>>
    /\ lastPass = NoPass
    /\ found \in SlotRequests

NextSlots ==
    \/ Tick
    \/ FindSlots

SpecSlots == InitSlots /\ [][NextSlots]_vars

----------------------------------------------------------------------------
(* Waitlist signups and removals, starting from empty tables *)

\* who signs up for what, with what preference and priority
Signups ==
    {[o |-> 1, c |-> c, s |-> 1, preference |-> preference, priority |-> priority] :
        c \in {1, 2}, preference \in Preferences, priority \in {0, 1}}

NextWaitlist ==
    \/ Tick
    \/ \E r \in Signups :
          add_to_waitlist(r.o, r.c, r.s, parse_waitlist_window(r.preference, r.o)[1],
                          parse_waitlist_window(r.preference, r.o)[2], r.priority)
    \/ \E waitlist_id \in DOMAIN waitlist : remove_from_waitlist(waitlist_id)

SpecWaitlist == Init /\ [][NextWaitlist]_vars

----------------------------------------------------------------------------
(* The gap-fill scenario with the answers to the offers: the bookings and
   reschedules are those the acceptances make; an offer may also be declined *)

NextAccept ==
    \/ Tick
    \/ \E id \in DOMAIN appts, reason \in Reasons, loop \in BOOLEAN :
          Cancel(id, reason, loop)
    \/ Cascade
    \/ \E waitlist_entry_id \in 1..(nextWaitId - 1), gap_start \in GapStarts :
          \E send_raises \in BOOLEAN :
              book_from_waitlist(waitlist_entry_id, gap_start, send_raises)
    \/ \E appointment_id \in DOMAIN appts, new_start_time \in GapStarts :
          \E send_raises \in BOOLEAN :
              accept_earlier_move(appointment_id, new_start_time, send_raises)
    \/ \E waitlist_entry_id \in 1..(nextWaitId - 1) :
          decline_waitlist_offer(waitlist_entry_id)
    \/ \E appointment_id \in DOMAIN appts : decline_earlier_move(appointment_id)

SpecAccept == InitCascade /\ [][NextAccept]_vars

----------------------------------------------------------------------------
(* Two owners whose opening hours are the same instants: owners 2 and 4, each
   with one client already waiting *)

\* who asks for what: the booking requests of owners 2 and 4
OwnerRequests == {[o |-> 2, c |-> 3, s |-> 3], [o |-> 4, c |-> 6, s |-> 5]}

InitOwners ==
    /\ now = Clock[1]
    /\ appts = <<>>
    /\ nextApptId = 1
    /\ sess = [p \in Sessions |-> Idle]
    /\ last = NoResult
    /\ reminderCalls = <<>>
    /\ calls = 0
    /\ dispatched = <<>>
    /\ tasks = <<>>
    /\ waitlist = [e \in {1, 2} |->
                      [owner_id |-> 2 * e, client_id |-> 3 * e, service_id |-> 2 * e + 1,
                       window_start_dt |-> SlotStart(2 * e, 0),
                       window_end_dt |-> SlotStart(2 * e, MaxSlotIdx),
                       priority |-> 0, notify_count |-> 0,
                       last_notified_at |-> None, created_at |-> Clock[1]]]
    /\ nextWaitId = 3
    /\ sent = <<>>
    /\ audit = <<>>
    /\ lastPass = NoPass
    /\ found = NoSlots

OwnerStep(p) ==
    \/ \E r \in OwnerRequests :
          \E start_dt \in Starts(r.o) :
              MayStart(p) /\ BookValidate(p, r.o, r.c, r.s, start_dt)
    \/ BookFlushRecheck(p)
    \/ \E reminder_raises \in BOOLEAN : BookCommit(p, reminder_raises)
    \/ \E id \in DOMAIN appts :
          \E start_dt \in Starts(appts[id].owner_id) :
              MayStart(p) /\ RescheduleValidate(p, id, start_dt)
    \/ RescheduleRecheck(p)
    \/ RescheduleCommit(p)

NextOwners ==
    \/ Tick
    \/ \E p \in Sessions : OwnerStep(p)
    \/ \E id \in DOMAIN appts, reason \in Reasons, loop \in BOOLEAN :
          Cancel(id, reason, loop)

SpecOwners == InitOwners /\ [][NextOwners]_vars

----------------------------------------------------------------------------
(* Outreach: a Tuesday of owner 4 with six appointments and a waitlist of six
   entries, one of them notified before *)

\* Tuesday hh:mm local time of owner 4
Tuesday(hh, mm) == to_utc(MinutesPerDay + hh * 60 + mm, 4)

\* the appointments of the day: 09:00 and every half hour after it; the one
\* at 09:30 is of another service, the one at 10:00 of a client who has not
\* opted in to move earlier
OutreachAppointments ==
    (1 :> [NewAppointment(4, 6, 5, Tuesday(9, 0), <<>>) EXCEPT !.status = "CONFIRMED"])
    @@ (2 :> NewAppointment(4, 6, 6, Tuesday(9, 30), <<>>))
    @@ (3 :> NewAppointment(4, 7, 5, Tuesday(10, 0), <<>>))
    @@ (4 :> [NewAppointment(4, 6, 5, Tuesday(10, 30), <<>>) EXCEPT !.status = "CONFIRMED"])
    @@ (5 :> NewAppointment(4, 6, 5, Tuesday(11, 0), <<>>))
    @@ (6 :> NewAppointment(4, 6, 5, Tuesday(11, 30), <<>>))

\* a waitlist row as add_to_waitlist inserts it, age minutes before the start
WaitlistRow(o, c, s, window_start, priority, age) ==
    [owner_id |-> o, client_id |-> c, service_id |-> s,
     window_start_dt |-> window_start, window_end_dt |-> Tuesday(18, 0),
     priority |-> priority, notify_count |-> 0, last_notified_at |-> None,
     created_at |-> Clock[1] - age]

\* the waitlist at the start: entries 1, 2 and 5 wait for service 5 of owner
\* 4 all Tuesday, entry 6 only from 09:10, entry 3 waits for service 6 of
\* owner 4, entry 4 for service 3 of owner 2.  Entry 1 has been notified twice,
\* the last time an hour before the start.
OutreachWaitlist ==
    (1 :> [WaitlistRow(4, 7, 5, Tuesday(8, 0), 1, 300)
              EXCEPT !.notify_count = 2, !.last_notified_at = Clock[1] - 60])
    @@ (2 :> WaitlistRow(4, 6, 5, Tuesday(8, 0), 0, 240))
    @@ (3 :> WaitlistRow(4, 6, 6, Tuesday(8, 0), 1, 180))
    @@ (4 :> WaitlistRow(2, 3, 3, Tuesday(8, 0), 1, 120))
    @@ (5 :> WaitlistRow(4, 8, 5, Tuesday(8, 0), 0, 60))
    @@ (6 :> WaitlistRow(4, 9, 5, Tuesday(9, 10), 1, 30))

\* the appointment that gets cancelled
Cancellable == {1}

InitOutreach ==
    /\ now = Clock[1]
    /\ appts = OutreachAppointments
    /\ nextApptId = 7
    /\ sess = [p \in Sessions |-> Idle]
    /\ last = NoResult
    /\ reminderCalls = [i \in DOMAIN OutreachAppointments |-> 1]
    /\ calls = 0
    /\ dispatched = <<>>
    /\ tasks = <<>>
    /\ waitlist = OutreachWaitlist
    /\ nextWaitId = 7
    /\ sent = <<>>
    /\ audit = <<>>
    /\ lastPass = NoPass
    /\ found = NoSlots

NextOutreach ==
    \/ Tick
    \/ \E id \in Cancellable, reason \in Reasons, loop \in BOOLEAN :
          Cancel(id, reason, loop)
    \/ Cascade

SpecOutreach == InitOutreach /\ [][NextOutreach]_vars

\* the same Tuesday with all but two of the requests already made
InitOutreachLive ==
    /\ now = Clock[1]
    /\ appts = OutreachAppointments
    /\ nextApptId = 7
    /\ sess = [p \in Sessions |-> Idle]
    /\ last = NoResult
    /\ reminderCalls = [i \in DOMAIN OutreachAppointments |-> 1]
    /\ calls = MaxCalls - 2
    /\ dispatched = <<>>
    /\ tasks = <<>>
    /\ waitlist = OutreachWaitlist
    /\ nextWaitId = 7
    /\ sent = <<>>
    /\ audit = <<>>
    /\ lastPass = NoPass
    /\ found = NoSlots

\* asyncio.create_task puts the gap-fill task on the running event loop, which
\* runs it once the task that created it yields: a task that waits is run
SpecOutreachLive == InitOutreachLive /\ [][NextOutreach]_vars /\ WF_vars(Cascade)

----------------------------------------------------------------------------
(* The policy rules: bookings and reschedules asked for at starts before,
   inside and past the opening hours, on a date with a block, and too close
   to the clock *)

\* hh:mm local time of owner o on date (days since the Monday of the week)
LocalInstant(o, date, hh, mm) == to_utc(date * MinutesPerDay + hh * 60 + mm, o)

\* the starts asked for: owner 1 on Tuesday 08:40, 09:00, 09:10 and 09:50;
\* owner 4 on Friday 22:00 and 23:45 and on the blocked Friday at 21:40 and 22:00
PolicyStarts(o) ==
    IF o = 1
    THEN {LocalInstant(1, 1, 8, 40), LocalInstant(1, 1, 9, 0),
          LocalInstant(1, 1, 9, 10), LocalInstant(1, 1, 9, 50)}
    ELSE {LocalInstant(4, 4, 22, 0), LocalInstant(4, 4, 23, 45),
          LocalInstant(4, 11, 21, 40), LocalInstant(4, 11, 22, 0)}

PolicyRequests == {[o |-> 1, c |-> 1, s |-> 1], [o |-> 4, c |-> 6, s |-> 5]}

\* the appointments committed at the start: none, or one of owner 1 on
\* Tuesday 09:00 and one of owner 4 on the Friday that was blocked after it
\* had been booked
PolicyTables ==
    {<<>>,
     (1 :> NewAppointment(1, 2, 2, LocalInstant(1, 1, 9, 0), <<>>))
        @@ (2 :> NewAppointment(4, 7, 6, LocalInstant(4, 11, 22, 0), <<>>))}

\* all but two of the calls have been made
InitPolicy ==
    /\ now = Clock[1]
    /\ appts \in PolicyTables
    /\ nextApptId = Cardinality(DOMAIN appts) + 1
    /\ sess = [p \in Sessions |-> Idle]
    /\ last = NoResult
    /\ reminderCalls = [i \in DOMAIN appts |-> 1]
    /\ calls = MaxCalls - 2
    /\ dispatched = <<>>
    /\ tasks = <<>>
    /\ waitlist = <<>>
    /\ nextWaitId = 1
    /\ sent = <<>>
    /\ audit = <<>>
    /\ lastPass = NoPass
    /\ found = NoSlots

PolicyStep(p) ==
    \/ \E r \in PolicyRequests :
          \E start_dt \in PolicyStarts(r.o) :
              MayStart(p) /\ BookValidate(p, r.o, r.c, r.s, start_dt)
    \/ BookFlushRecheck(p)
    \/ BookCommit(p, FALSE)
    \/ \E id \in DOMAIN appts :
          \E start_dt \in PolicyStarts(appts[id].owner_id) :
              MayStart(p) /\ RescheduleValidate(p, id, start_dt)
    \/ RescheduleRecheck(p)
    \/ RescheduleCommit(p)

NextPolicy ==
    \/ Tick
    \/ \E p \in Sessions : PolicyStep(p)

SpecPolicy == InitPolicy /\ [][NextPolicy]_vars

----------------------------------------------------------------------------
(* Answers that race: on owner 4's Tuesday the clients who were offered the
   gap accept in two database sessions at once.  An acceptance is the
   handler's call of book_appointment or reschedule_appointment, whose steps
   are those of the scheduler; the exception a refused call ends in is what
   the handler's except branch turns into its error reply. *)

\* _book_from_waitlist from the commit of book_appointment on (scheduler.py
\* lines 362-374, optimizer.py lines 354-375): the appointment is committed,
\* the waitlist entry of the client deleted and the confirmation sent
AcceptBookCommit(p, send_raises) ==
    /\ sess[p].pc = "checked" /\ sess[p].op = "book"
    /\ appts' = appts @@ (sess[p].id :>
                    [PendingRow(p) EXCEPT !.notes = <<"Booked from waitlist via gap-fill">>])
    /\ reminderCalls' = CallReminderScheduler(reminderCalls, sess[p].id)
    /\ waitlist' = [e \in {f \in DOMAIN waitlist :
                               \/ waitlist[f].owner_id # sess[p].owner
                               \/ waitlist[f].client_id # sess[p].client
                               \/ waitlist[f].service_id # sess[p].service} |->
                        waitlist[e]]
    /\ last' = Done("accept_waitlist", AcceptReply("ok", send_raises),
                    AcceptError("ok", send_raises))
    /\ sess' = [sess EXCEPT ![p] = Idle]
    /\ UNCHANGED <<now, nextApptId, calls, dispatched, tasks,
                   nextWaitId, sent, audit, lastPass, found>>

\* the waitlist entries and the appointments that hold an offer of the latest
\* pass
OfferedTo(kind) == {sent[k].to : k \in {j \in 1..Len(sent) : sent[j].kind = kind}}

RaceStep(p) ==
    \/ \E e \in OfferedTo("waitlist_offer") \cap DOMAIN waitlist, gap_start \in GapStarts :
          /\ MayStart(p)
          /\ BookValidate(p, waitlist[e].owner_id, waitlist[e].client_id,
                          waitlist[e].service_id, gap_start)
    \/ BookFlushRecheck(p)
    \/ \E send_raises \in BOOLEAN : AcceptBookCommit(p, send_raises)
    \/ \E id \in OfferedTo("move_offer"), gap_start \in GapStarts :
          MayStart(p) /\ RescheduleValidate(p, id, gap_start)
    \/ RescheduleRecheck(p)
    \/ RescheduleCommit(p)

\* three calls are left: the cancellation and two answers
InitRace ==
    /\ now = Clock[1]
    /\ appts = OutreachAppointments
    /\ nextApptId = 7
    /\ sess = [p \in Sessions |-> Idle]
    /\ last = NoResult
    /\ reminderCalls = [i \in DOMAIN OutreachAppointments |-> 1]
    /\ calls = MaxCalls - 3
    /\ dispatched = <<>>
    /\ tasks = <<>>
    /\ waitlist = OutreachWaitlist
    /\ nextWaitId = 7
    /\ sent = <<>>
    /\ audit = <<>>
    /\ lastPass = NoPass
    /\ found = NoSlots

NextRace ==
    \/ \E id \in Cancellable, reason \in Reasons, loop \in BOOLEAN :
          Cancel(id, reason, loop)
    \/ Cascade
    \/ \E p \in Sessions : RaceStep(p)

SpecRace == InitRace /\ [][NextRace]_vars

----------------------------------------------------------------------------
(* Quiet hours: a cancellation and its gap-fill task at instants around the
   ends of the owners' quiet hours *)

\* local times of the day around 01:00, 05:00, 08:00, 22:00 and midnight
QuietTimes ==
    {0, 59, 60, 3 * 60, 4 * 60 + 59, 5 * 60, 5 * 60 + 1, 7 * 60 + 59, 8 * 60,
     8 * 60 + 1, 12 * 60, 21 * 60 + 59, 22 * 60, 23 * 60 + 59}

\* owner 1 (quiet overnight), owner 2 (no quiet hours), owner 4 (quiet in the
\* small hours)
QuietOwners == {1, 2, 4}

\* the instants at which those times are read on the Tuesday of the week
QuietInstants == {LocalInstant(o, 1, 0, minute) : o \in QuietOwners, minute \in QuietTimes}

\* one appointment of each owner on the Tuesday of the week after, 09:00
QuietAppointments ==
    (1 :> NewAppointment(1, 2, 1, LocalInstant(1, 8, 9, 0), <<>>))
    @@ (2 :> NewAppointment(2, 3, 3, LocalInstant(2, 8, 9, 0), <<>>))
    @@ (3 :> NewAppointment(4, 6, 5, LocalInstant(4, 8, 9, 0), <<>>))

\* a client of owner 1 and one of owner 4 wait for that morning
QuietWaitlist ==
    [e \in {1, 2} |->
        [owner_id |-> 3 * e - 2, client_id |-> 3 * e - 2, service_id |-> 4 * e - 3,
         window_start_dt |-> LocalInstant(3 * e - 2, 8, 8, 0),
         window_end_dt |-> LocalInstant(3 * e - 2, 8, 18, 0),
         priority |-> 0, notify_count |-> 0, last_notified_at |-> None,
         created_at |-> Clock[1]]]

\* one call is left
InitQuiet ==
    /\ now \in QuietInstants
    /\ appts = QuietAppointments
    /\ nextApptId = 4
    /\ sess = [p \in Sessions |-> Idle]
    /\ last = NoResult
    /\ reminderCalls = [i \in DOMAIN QuietAppointments |-> 1]
    /\ calls = MaxCalls - 1
    /\ dispatched = <<>>
    /\ tasks = <<>>
    /\ waitlist = QuietWaitlist
    /\ nextWaitId = 3
    /\ sent = <<>>
    /\ audit = <<>>
    /\ lastPass = NoPass
    /\ found = NoSlots

NextQuiet ==
    \/ \E id \in DOMAIN appts, reason \in Reasons, loop \in BOOLEAN :
          Cancel(id, reason, loop)
    \/ Cascade

SpecQuiet == InitQuiet /\ [][NextQuiet]_vars

----------------------------------------------------------------------------
(* Properties *)

\* a call of op returns to its caller in this step
Returns(op) == last'.n # last.n /\ last'.op = op

\* a gap-fill task for appointment id runs in this step
CascadeStep(id) ==
    /\ id \in DOMAIN tasks
    /\ tasks' = Dec(tasks, id)
    /\ lastPass'.no = lastPass.no + 1

\* the messages sent in this step
NewMessages == IF lastPass'.no # lastPass.no THEN sent' ELSE <<>>

WindowStart(a) == a.start_dt - Service(a.service_id).buffer_min
WindowEnd_(a) == a.end_dt + Service(a.service_id).buffer_min

\* C1: for every owner, no two appointments whose status is not CANCELLED have
\* overlapping windows [start - buffer, end + buffer), each window taken with
\* the buffer of the appointment's own service.
C1_NoDoubleBooking ==
    \A i, j \in DOMAIN appts :
        /\ i # j
        /\ appts[i].owner_id = appts[j].owner_id
        /\ appts[i].status # "CANCELLED"
        /\ appts[j].status # "CANCELLED"
        => \/ WindowEnd_(appts[i]) <= WindowStart(appts[j])
           \/ WindowEnd_(appts[j]) <= WindowStart(appts[i])

\* session p commits its booking or its reschedule in this step
Commits(p) == sess[p].pc = "checked" /\ sess'[p].pc = "idle"

\* C2: of two interleaved book or reschedule calls of one owner that target
\* overlapping conflict windows and both pass the composite check, at most one
\* commits: whenever a session commits, no active appointment another call has
\* committed lies in the conflict window of what it commits.
C2_RecheckSerialises ==
    [][\A p \in Sessions :
          Commits(p) =>
              \A i \in DOMAIN appts :
                  /\ i # sess[p].id
                  /\ appts[i].owner_id = sess[p].owner
                  /\ appts[i].status # "CANCELLED"
                  => \/ appts[i].end_dt <= sess[p].start
                                             - Service(sess[p].service).buffer_min
                     \/ appts[i].start_dt >= sess[p].start
                                             + Service(sess[p].service).duration_min
                                             + Service(sess[p].service).buffer_min]_vars

\* appointment B lies in the conflict window appointment A would have at new_start
Occupied(A, B, new_start) ==
    /\ B # A
    /\ appts[B].owner_id = appts[A].owner_id
    /\ appts[B].status # "CANCELLED"
    /\ appts[B].start_dt < new_start + Service(appts[A].service_id).duration_min
                                     + Service(appts[A].service_id).buffer_min
    /\ appts[B].end_dt > new_start - Service(appts[A].service_id).buffer_min

\* C3: rescheduling appointment A to a start whose conflict window overlaps a
\* non-cancelled appointment B of the same owner fails with a SchedulingError
\* (the conflict error whenever lead time, business hours and blocks allow the
\* new start), at the composite check or at the final recheck, and leaves every
\* appointment, A and B included, exactly as it was.
C3_RescheduleConflictSafety ==
    [][/\ calls' # calls =>
          \A p \in Sessions, A \in DOMAIN appts :
          \A new_start \in Starts(appts[A].owner_id) :
             /\ \E B \in DOMAIN appts : Occupied(A, B, new_start)
             /\ RescheduleValidate(p, A, new_start)
             => /\ Returns("reschedule")
                /\ last'.out = "SchedulingError"
                /\ appts' = appts
                /\ (/\ check_lead_time(appts[A].owner_id, new_start)
                    /\ check_business_hours(appts[A].owner_id, new_start,
                                            Service(appts[A].service_id).duration_min)
                    /\ check_blocked_time(appts[A].owner_id, new_start,
                                          Service(appts[A].service_id).duration_min) = "ok"
                    => last'.why = "conflict")
       /\ \A p \in Sessions :
             /\ sess[p].pc = "validated" /\ sess[p].op = "reschedule"
             /\ \E B \in DOMAIN appts : Occupied(sess[p].id, B, sess[p].start)
             /\ RescheduleRecheck(p)
             => /\ Returns("reschedule")
                /\ last'.out = "SchedulingError"
                /\ last'.why = "recheck_conflict"
                /\ appts' = appts]_vars

\* a reschedule into an occupied window has just been refused
C3_Witness ==
    /\ last.op = "reschedule"
    /\ last.out = "SchedulingError"
    /\ last.why = "conflict"
    /\ \E A, B \in DOMAIN appts :
          A # B /\ appts[A].status # "CANCELLED" /\ appts[B].status # "CANCELLED"
                /\ appts[A].owner_id = appts[B].owner_id

\* C4: over any sequence of cancel calls on the same appointment, at most one
\* gap-fill cascade is dispatched for it.
C4_AtMostOneCascade ==
    \A id \in DOMAIN appts : Count(dispatched, id) <= 1

\* the waitlist entries a message of this step offers the gap to, in the order sent
OfferedEntries ==
    LET q == SelectSeq(NewMessages, LAMBDA m : m.kind = "waitlist_offer")
    IN  [k \in 1..Len(q) |-> q[k].to]

\* C5: a cascade that runs while the instant lies inside the owner's quiet
\* hours reports itself deferred (unless its first audit write raised) and
\* sends nothing: no waitlist offer, no earlier-move offer, and no waitlist
\* entry's notify_count or last_notified_at changes.
C5_QuietHoursDefer ==
    [][\A id \in DOMAIN tasks :
          /\ CascadeStep(id)
          /\ is_within_quiet_hours(now, quiet_hours_start(appts[id].owner_id),
                                   quiet_hours_end(appts[id].owner_id),
                                   appts[id].owner_id)
          => /\ lastPass'.ran \in {"deferred", "raised_at_start"}
             /\ sent' = <<>>
             /\ waitlist' = waitlist]_vars

\* a cascade was deferred although an entry was waiting for the gap
C5_Witness ==
    /\ lastPass.ran = "deferred"
    /\ sent = <<>>
    /\ \E id \in DOMAIN appts :
          /\ appts[id].status = "CANCELLED"
          /\ MatchingEntries(waitlist, appts[id].owner_id, appts[id].start_dt,
                             appts[id].end_dt, appts[id].service_id) # {}

\* C6: the waitlist offers of one cascade pass go out in rank order: an entry
\* of higher priority before any entry of lower priority, and among equal
\* priorities the entry created earlier first.
C6_RankOrder ==
    [][\A i, j \in 1..Len(OfferedEntries) :
          i < j =>
              LET first == waitlist[OfferedEntries[i]]
                  second == waitlist[OfferedEntries[j]]
              IN  /\ first.priority >= second.priority
                  /\ (first.priority = second.priority
                      => first.created_at <= second.created_at)]_vars

\* one pass has notified two entries of different priority
C6_Witness ==
    \E i, j \in 1..Len(sent) :
        /\ i < j
        /\ sent[i].kind = "waitlist_offer" /\ sent[j].kind = "waitlist_offer"
        /\ waitlist[sent[i].to].priority > waitlist[sent[j].to].priority

C8_FailedBookLeavesNothing ==
    [][/\ Returns("book") /\ last'.out # "ok"
          => /\ last'.out = "SchedulingError"
             /\ appts' = appts
             /\ reminderCalls' = reminderCalls
       /\ \A p \in Sessions :
             BookFlushRecheck(p) /\ sess'[p].pc = "idle"
             => Returns("book") /\ last'.out = "SchedulingError" /\ appts' = appts]_vars

\* a booking was refused by the final recheck, after its row had been flushed
C8_Witness ==
    /\ last.op = "book"
    /\ last.out = "SchedulingError"
    /\ last.why = "recheck_conflict"

\* appointment.start - now is at least the owner's cancel window
InsideCancelWindow(a) ==
    a.start_dt - now >= cancel_window_hr(a.owner_id) * 60

\* C9: cancel succeeds only if the cancel-window check passes; when the check
\* fails the status and the notes are unchanged, the call raises, and no
\* gap-fill cascade is dispatched.  (An owner without a settings row has no
\* cancel window to check.)
C9_CancelWindow ==
    [][\A id \in DOMAIN appts, reason \in Reasons, loop \in BOOLEAN :
          Cancel(id, reason, loop) =>
              /\ Returns("cancel")
              /\ (last'.out = "ok" =>
                     ~HasSettings(appts[id].owner_id) \/ InsideCancelWindow(appts[id]))
              /\ (HasSettings(appts[id].owner_id) /\ ~InsideCancelWindow(appts[id]) =>
                     /\ last'.out = "SchedulingError"
                     /\ appts' = appts
                     /\ dispatched' = dispatched
                     /\ tasks' = tasks)]_vars

\* a cancellation has been refused for being too late
C9_Witness ==
    /\ last.op = "cancel"
    /\ last.out = "SchedulingError"
    /\ last.why = "cancel_window"
    /\ \E id \in DOMAIN appts :
          /\ appts[id].status # "CANCELLED"
          /\ HasSettings(appts[id].owner_id)
          /\ ~InsideCancelWindow(appts[id])

\* C10: once the cancel-window check has passed, cancel commits CANCELLED and
\* returns success before any cascade has run, whether or not the cascade could
\* be dispatched; and a cascade, however it ends, leaves the appointment
\* CANCELLED and reports nothing to the cancelling caller.
C10_CancelIndependentOfCascade ==
    [][/\ \A id \in DOMAIN appts, reason \in Reasons, loop \in BOOLEAN :
             /\ Cancel(id, reason, loop)
             /\ (~HasSettings(appts[id].owner_id) \/ InsideCancelWindow(appts[id]))
             => /\ appts'[id].status = "CANCELLED"
                /\ last' = [n |-> 1 - last.n, op |-> "cancel", out |-> "ok",
                            why |-> "none"]
                /\ lastPass' = lastPass
       /\ \A id \in DOMAIN tasks :
             CascadeStep(id) => appts' = appts /\ last' = last]_vars

\* a cancellation has succeeded although its cascade could not be dispatched
C10_Witness ==
    /\ last.op = "cancel"
    /\ last.out = "ok"
    /\ \E id \in DOMAIN appts :
          appts[id].status = "CANCELLED" /\ Count(dispatched, id) = 0

\* local start (minutes since Monday 00:00 in the owner's timezone) of a slot
\* that the last find_available_slots call returned
LocalStart(slot) == slot.start_dt + TzOffset(Service(found.service).owner_id)

\* C11: every slot find_available_slots returns lies on a date of the range
\* asked for and entirely inside an active Availability row of that date's
\* weekday, in owner-local time: window start <= slot start and slot start +
\* duration <= window end; a date whose weekday has no active row gets no slot.
C11_SlotsInsideAvailability ==
    \A k \in 1..Len(found.slots) :
        LET local == LocalStart(found.slots[k])
        IN  /\ local \div MinutesPerDay \in found.start_date..found.end_date
            /\ \E r \in Availabilities(Service(found.service).owner_id) :
                  /\ r.active
                  /\ r.weekday = (local \div MinutesPerDay) % 7
                  /\ r.start_time <= (local % MinutesPerDay)
                  /\ (local % MinutesPerDay) + Service(found.service).duration_min
                        <= r.end_time

\* slots were returned for Tuesday and none for Wednesday, whose only row is
\* inactive, although more slots were asked for
C11_Witness ==
    /\ found.service = 3
    /\ found.start_date = 1 /\ found.end_date = 2
    /\ found.slots # <<>>
    /\ Len(found.slots) < found.max_slots

\* C12: two distinct slots find_available_slots returns for the same local
\* date start at least duration + buffer minutes apart.
C12_BufferRespected ==
    \A i, j \in 1..Len(found.slots) :
        /\ i # j
        /\ LocalStart(found.slots[i]) \div MinutesPerDay
              = LocalStart(found.slots[j]) \div MinutesPerDay
        => LET diff == found.slots[i].start_dt - found.slots[j].start_dt
           IN  (IF diff < 0 THEN -diff ELSE diff)
                  >= Service(found.service).duration_min
                        + Service(found.service).buffer_min

\* two slots of one date were returned exactly duration + buffer apart, for a
\* service whose buffer is not zero
C12_Witness ==
    \E i, j \in 1..Len(found.slots) :
        /\ Service(found.service).buffer_min > 0
        /\ found.slots[j].start_dt - found.slots[i].start_dt
              = Service(found.service).duration_min + Service(found.service).buffer_min

\* C13: find_available_slots called with max_slots = 0 ends in an error
\* instead of returning a list.
C13_ZeroSlotsRejected ==
    found.at # None /\ found.max_slots = 0 => found.raised # "none"

\* the scenario of C14: the call for owner 3's service 4 (30 minutes, buffer
\* 10) and Monday alone, made at 08:00 local time that Monday, owner 3 having
\* no appointment and no block
MondayAt8 ==
    /\ found.service = 4
    /\ found.start_date = 0 /\ found.end_date = 0
    /\ found.at = 8 * 60 - TzOffset(3)
    /\ \A i \in DOMAIN appts : appts[i].owner_id # 3
    /\ Blocks(3) = {}

\* C14: in that scenario every slot returned starts no earlier than 09:30 and
\* no later than 16:30.
C14_NotBefore0930 ==
    MondayAt8 =>
        \A k \in 1..Len(found.slots) :
            /\ LocalStart(found.slots[k]) >= 9 * 60 + 30
            /\ LocalStart(found.slots[k]) <= 16 * 60 + 30

\* C14 as the slot finder has it: in that scenario every slot returned starts
\* no earlier than 09:00 and no later than 16:30; the 09:00 slot, exactly the
\* lead time away, is the first one returned whenever max_slots >= 1, and with
\* max_slots >= 12 the slots returned are the twelve at 09:00, 09:40, ..., 16:20.
C14_FromLeadTime ==
    MondayAt8 =>
        /\ \A k \in 1..Len(found.slots) :
              /\ LocalStart(found.slots[k]) >= 9 * 60
              /\ LocalStart(found.slots[k]) <= 16 * 60 + 30
        /\ (found.max_slots >= 1 =>
               found.slots # <<>> /\ LocalStart(found.slots[1]) = 9 * 60)
        /\ (found.max_slots >= 12 =>
               /\ Len(found.slots) = 12
               /\ \A k \in 1..12 : LocalStart(found.slots[k]) = 9 * 60 + 40 * (k - 1))

\* the scenario's call has returned all twelve slots of the Monday
C14_Witness ==
    MondayAt8 /\ found.max_slots > 12 /\ Len(found.slots) = 12

\* C17: every (owner, client, service) triple has at most one active waitlist
\* entry, an entry being active while its window has not ended.
C17_OneActiveEntry ==
    \A e, f \in DOMAIN waitlist :
        /\ waitlist[e].owner_id = waitlist[f].owner_id
        /\ waitlist[e].client_id = waitlist[f].client_id
        /\ waitlist[e].service_id = waitlist[f].service_id
        /\ waitlist[e].window_end_dt >= now
        /\ waitlist[f].window_end_dt >= now
        => e = f

\* after three signups a triple has two entries, one of them expired
C17_Witness ==
    /\ calls >= 3
    /\ \E e, f \in DOMAIN waitlist :
          /\ e # f
          /\ waitlist[e].owner_id = waitlist[f].owner_id
          /\ waitlist[e].client_id = waitlist[f].client_id
          /\ waitlist[e].service_id = waitlist[f].service_id
          /\ waitlist[e].window_end_dt < now
          /\ waitlist[f].window_end_dt >= now

\* C18: a repeat signup for an active entry leaves the entry with a window that
\* contains both its old window and the window asked for, and with the larger
\* of its old priority and the priority asked for.
C18_RepeatWidens ==
    [][\A r \in Signups, e \in DOMAIN waitlist :
          LET window == parse_waitlist_window(r.preference, r.o)
              old == waitlist[e]
          IN  /\ old.owner_id = r.o /\ old.client_id = r.c /\ old.service_id = r.s
              /\ old.window_end_dt >= now
              /\ add_to_waitlist(r.o, r.c, r.s, window[1], window[2], r.priority)
              => /\ DOMAIN waitlist' = DOMAIN waitlist
                 /\ waitlist'[e].window_start_dt <= old.window_start_dt
                 /\ waitlist'[e].window_start_dt <= window[1]
                 /\ waitlist'[e].window_end_dt >= old.window_end_dt
                 /\ waitlist'[e].window_end_dt >= window[2]
                 /\ waitlist'[e].priority
                       = IF old.priority > r.priority THEN old.priority ELSE r.priority]_vars

\* C15: accepting a waitlist offer for a gap that is still free (the composite
\* check passes at the gap start) adds exactly one appointment, for the entry's
\* client and service, starting at the gap start, with status CONFIRMED, leaves
\* every other appointment as it was, and deletes the accepted entry.
C15_AcceptCreatesConfirmed ==
    [][\A e \in DOMAIN waitlist, gap_start \in GapStarts, send_raises \in BOOLEAN :
          /\ validate_appointment_request(appts, waitlist[e].owner_id, gap_start,
                 Service(waitlist[e].service_id).duration_min,
                 Service(waitlist[e].service_id).buffer_min, None) = "ok"
          /\ book_from_waitlist(e, gap_start, send_raises)
          => /\ \E id \in DOMAIN appts' \ DOMAIN appts :
                   /\ DOMAIN appts' = DOMAIN appts \cup {id}
                   /\ appts'[id].client_id = waitlist[e].client_id
                   /\ appts'[id].service_id = waitlist[e].service_id
                   /\ appts'[id].start_dt = gap_start
                   /\ appts'[id].status = "CONFIRMED"
             /\ \A j \in DOMAIN appts : appts'[j] = appts[j]
             /\ e \notin DOMAIN waitlist']_vars

\* C16: accepting an earlier-move offer moves the appointment exactly when the
\* composite check at the gap start, the appointment's own id excluded, and the
\* conflict recheck pass: then the appointment starts at the gap start and
\* ends duration later and nothing else changes; otherwise the acceptance
\* reports an error and every appointment keeps its start and end.  Success is
\* reported only for an appointment that was moved.
C16_MoveOnlyThroughReschedule ==
    [][\A id \in DOMAIN appts, gap_start \in GapStarts, send_raises \in BOOLEAN :
          accept_earlier_move(id, gap_start, send_raises) =>
              LET duration == Service(appts[id].service_id).duration_min
                  buffer == Service(appts[id].service_id).buffer_min
                  passes ==
                      /\ validate_appointment_request(appts, appts[id].owner_id,
                             gap_start, duration, buffer, id) = "ok"
                      /\ Conflicts(appts, appts[id].owner_id, gap_start,
                                   gap_start + duration, buffer, id) = {}
              IN  /\ passes =>
                        appts' = [appts EXCEPT ![id].start_dt = gap_start,
                                               ![id].end_dt = gap_start + duration]
                  /\ ~passes => last'.out = "error" /\ appts' = appts
                  /\ last'.op = "accept_move"
                  /\ (last'.out = "success" => passes)]_vars

\* an acceptance was refused because the gap had been taken, and the
\* appointment is where it was
C16_Witness ==
    /\ last.op = "accept_move"
    /\ last.out = "error"
    /\ last.why = "conflict"
    /\ appts[2].start_dt = SlotStart(1, 2)
    /\ \E i \in DOMAIN appts : i # 2 /\ appts[i].status # "CANCELLED"
                                     /\ appts[i].start_dt \in GapStarts

\* C19: no step removes an appointment, and an appointment that is CANCELLED
\* stays CANCELLED.
C19_NeverDeletedCancelledAbsorbing ==
    [][\A id \in DOMAIN appts :
          /\ id \in DOMAIN appts'
          /\ (appts[id].status = "CANCELLED" => appts'[id].status = "CANCELLED")]_vars

\* a cancelled appointment is still there, CANCELLED, after an accepted move
\* has put another appointment into its gap
C19_Witness ==
    /\ last.op = "accept_move"
    /\ last.out = "success"
    /\ appts[1].status = "CANCELLED"
    /\ \E i \in DOMAIN appts :
          /\ i # 1
          /\ appts[i].status # "CANCELLED"
          /\ appts[i].start_dt = appts[1].start_dt

\* C20: every appointment ends duration minutes of its service after it
\* starts, the buffer not included, and so after its start.
C20_EndIsStartPlusDuration ==
    \A i \in DOMAIN appts :
        /\ appts[i].end_dt = appts[i].start_dt + Service(appts[i].service_id).duration_min
        /\ appts[i].end_dt > appts[i].start_dt

\* an appointment of a service with a buffer was booked and then rescheduled
C20_Witness ==
    /\ last.op = "reschedule"
    /\ last.out = "ok"
    /\ \E i \in DOMAIN appts :
          /\ Service(appts[i].service_id).buffer_min > 0
          /\ appts[i].start_dt # SlotStart(appts[i].owner_id, 0)

\* the rows of a table (appointments or waitlist entries) that belong to owner o
OwnRows(table, o) ==
    [i \in {j \in DOMAIN table : table[j].owner_id = o} |-> table[i]]

\* this step leaves the appointments and waitlist entries of every owner but o
\* as they were
OthersUntouched(o) ==
    \A y \in Owners \ {o} :
        /\ OwnRows(appts', y) = OwnRows(appts, y)
        /\ OwnRows(waitlist', y) = OwnRows(waitlist, y)

\* an active appointment of owner o other than id lies in the conflict window
\* of service s at start_dt
OwnConflict(o, s, start_dt, id) ==
    \E i \in DOMAIN appts :
        /\ i # id
        /\ appts[i].owner_id = o
        /\ appts[i].status \in Active
        /\ appts[i].start_dt < start_dt + Service(s).duration_min + Service(s).buffer_min
        /\ appts[i].end_dt > start_dt - Service(s).buffer_min

\* C21: every step of a book, reschedule or cancel for owner X ends as it
\* would if the tables held the rows of owner X alone, and leaves the
\* appointments and waitlist entries of every other owner unchanged.
C21_OwnersIndependent ==
    [][/\ \A p \in Sessions, r \in OwnerRequests :
          \A start_dt \in Starts(r.o) :
             BookValidate(p, r.o, r.c, r.s, start_dt) =>
                 LET v == validate_appointment_request(OwnRows(appts, r.o), r.o, start_dt,
                              Service(r.s).duration_min, Service(r.s).buffer_min, None)
                 IN  /\ OthersUntouched(r.o)
                     /\ IF v = "ok" THEN sess'[p].pc = "validated" /\ last' = last
                        ELSE Returns("book") /\ last'.why = v
       /\ \A p \in Sessions, id \in DOMAIN appts :
          \A start_dt \in Starts(appts[id].owner_id) :
             RescheduleValidate(p, id, start_dt) =>
                 LET o == appts[id].owner_id
                     s == appts[id].service_id
                     v == validate_appointment_request(OwnRows(appts, o), o, start_dt,
                              Service(s).duration_min, Service(s).buffer_min, id)
                 IN  /\ OthersUntouched(o)
                     /\ IF v = "ok" THEN sess'[p].pc = "validated" /\ last' = last
                        ELSE Returns("reschedule") /\ last'.why = v
       /\ \A p \in Sessions :
             BookFlushRecheck(p) \/ RescheduleRecheck(p) =>
                 /\ OthersUntouched(sess[p].owner)
                 /\ IF OwnConflict(sess[p].owner, sess[p].service, sess[p].start,
                                   IF sess[p].op = "book" THEN nextApptId ELSE sess[p].id)
                    THEN last'.n # last.n /\ last'.why = "recheck_conflict"
                    ELSE sess'[p].pc = "checked" /\ last' = last
       /\ \A p \in Sessions :
             (\E reminder_raises \in BOOLEAN : BookCommit(p, reminder_raises))
                \/ RescheduleCommit(p) =>
                 /\ OthersUntouched(sess[p].owner)
                 /\ last'.out = "ok"
       /\ \A id \in DOMAIN appts, reason \in Reasons, loop \in BOOLEAN :
             Cancel(id, reason, loop) =>
                 /\ OthersUntouched(appts[id].owner_id)
                 /\ (last'.out = "ok" <=>
                        \/ ~HasSettings(appts[id].owner_id)
                        \/ InsideCancelWindow(appts[id]))]_vars

\* a booking has just succeeded for one owner at the very instants at which
\* another owner has an active appointment, and the other owner's waitlist
\* entry is as it was
C21_Witness ==
    /\ last.op = "book" /\ last.out = "ok"
    /\ \E i, j \in DOMAIN appts :
          /\ appts[i].owner_id # appts[j].owner_id
          /\ appts[i].status \in Active /\ appts[j].status \in Active
          /\ appts[i].start_dt = appts[j].start_dt
    /\ \A e \in DOMAIN waitlist : waitlist[e].notify_count = 0

\* C22: the step that commits a booking calls the reminder scheduler exactly
\* once, for the appointment it has just committed, and returns success
\* whether or not the reminder scheduler raised; a book call that fails makes
\* no such call, and no other step makes one.
C22_ReminderOncePerBooking ==
    [][/\ \A p \in Sessions, reminder_raises \in BOOLEAN :
             BookCommit(p, reminder_raises) =>
                 /\ Returns("book")
                 /\ last'.out = "ok"
                 /\ sess[p].id \notin DOMAIN appts
                 /\ sess[p].id \in DOMAIN appts'
                 /\ Count(reminderCalls, sess[p].id) = 0
                 /\ Count(reminderCalls', sess[p].id) = 1
                 /\ \A i \in DOMAIN reminderCalls : reminderCalls'[i] = reminderCalls[i]
       /\ (Returns("book") /\ last'.out # "ok" => reminderCalls' = reminderCalls)
       /\ (reminderCalls' # reminderCalls => Returns("book") /\ last'.out = "ok")]_vars

\* a booking has returned its committed appointment although the reminder
\* scheduler raised, and every committed appointment has had its one call
C22_Witness ==
    /\ last.op = "book" /\ last.out = "ok" /\ last.why = "reminder_failed"
    /\ appts # <<>>
    /\ \A id \in DOMAIN appts : Count(reminderCalls, id) = 1

\* C23: every waitlist offer a cascade pass sends for a gap goes to an entry
\* of the gap's owner and the gap's service whose window contains the gap:
\* window start <= gap start and window end >= gap end.
C23_OnlyContainingWindows ==
    [][\A id \in DOMAIN tasks :
          CascadeStep(id) =>
              \A k \in 1..Len(OfferedEntries) :
                  LET entry == waitlist[OfferedEntries[k]]
                  IN  /\ entry.owner_id = appts[id].owner_id
                      /\ entry.service_id = appts[id].service_id
                      /\ entry.window_start_dt <= appts[id].start_dt
                      /\ entry.window_end_dt >= appts[id].end_dt]_vars

\* a pass has sent a waitlist offer for the 09:00 gap, and the entries of the
\* other service, of the other owner and of the window that starts at 09:10
\* have never been notified
C23_Witness ==
    /\ \E k \in 1..Len(sent) : sent[k].kind = "waitlist_offer"
    /\ appts[1].status = "CANCELLED"
    /\ waitlist[3].notify_count = 0
    /\ waitlist[4].notify_count = 0
    /\ waitlist[6].notify_count = 0
    /\ waitlist[6].window_start_dt > appts[1].start_dt
    /\ waitlist[6].window_start_dt < appts[1].end_dt

\* C24: a cascade pass never notifies an entry whose notify_count is 3 or more
\* or that was last notified less than 2 hours before; so no notify_count
\* exceeds 3 and the instants of two successive notifications of an entry are
\* at least 2 hours apart.
C24_NotifyThrottle ==
    [][/\ \A e \in DOMAIN waitlist' : waitlist'[e].notify_count <= 3
       /\ \A k \in 1..Len(OfferedEntries) :
             LET entry == waitlist[OfferedEntries[k]]
             IN  /\ entry.notify_count < 3
                 /\ \/ entry.last_notified_at = None
                    \/ now - entry.last_notified_at >= 2 * 60
       /\ \A e \in DOMAIN waitlist :
             /\ waitlist[e].last_notified_at # None
             /\ waitlist'[e].last_notified_at # waitlist[e].last_notified_at
             => waitlist'[e].last_notified_at - waitlist[e].last_notified_at
                   >= 2 * 60]_vars

\* a pass that ran to its end has considered an entry notified three times,
\* more than 2 hours after its last notification, and has not notified it
C24_Witness ==
    /\ lastPass.ran = "completed"
    /\ \E k \in 1..Len(lastPass.order) : lastPass.order[k] = 1
    /\ waitlist[1].notify_count = 3
    /\ now - waitlist[1].last_notified_at >= 2 * 60
    /\ \A k \in 1..Len(sent) : sent[k].to # 1 \/ sent[k].kind # "waitlist_offer"

\* C25: in a cascade pass every entry that is notified has its notify_count
\* raised by exactly 1 and its last_notified_at set to the current instant,
\* and every other entry (skipped, not matched, beyond the outreach limit, or
\* with a failed send) keeps both; no entry is added or removed.
C25_TrackingExact ==
    [][\A id \in DOMAIN tasks :
          CascadeStep(id) =>
              /\ DOMAIN waitlist' = DOMAIN waitlist
              /\ \A e \in DOMAIN waitlist :
                    IF \E k \in 1..Len(OfferedEntries) : OfferedEntries[k] = e
                    THEN waitlist'[e] = [waitlist[e] EXCEPT
                                            !.notify_count = waitlist[e].notify_count + 1,
                                            !.last_notified_at = now]
                    ELSE waitlist'[e] = waitlist[e]]_vars

\* one pass has notified entry 1, failed to reach entry 2, and left entry 5
\* beyond the outreach limit
C25_Witness ==
    /\ lastPass.order = <<1, 2>>
    /\ lastPass.failed = {2}
    /\ waitlist[1].notify_count = 3 /\ waitlist[1].last_notified_at = now
    /\ waitlist[2].notify_count = 0 /\ waitlist[2].last_notified_at = None
    /\ waitlist[5].notify_count = 0

\* the appointments a message of this step offers an earlier move to, in the
\* order sent
MoveOffers ==
    LET q == SelectSeq(NewMessages, LAMBDA m : m.kind = "move_offer")
    IN  [k \in 1..Len(q) |-> q[k].to]

\* C26: a cascade pass sends earlier-move offers for a gap only if its
\* waitlist step has left no offer for that gap open: no pass sends both a
\* waitlist offer and an earlier-move offer.
C26_MovesOnlyAfterWaitlistDone ==
    [][OfferedEntries # <<>> => MoveOffers = <<>>]_vars

\* the appointments the claim lets a move into the gap of appointment id be
\* offered to: active, of the same owner, starting on the gap's local day after
\* the gap's end, of a client who opted in, with a service no longer than the gap
EligibleToMove(id) ==
    LET o == appts[id].owner_id
        gap_date == (appts[id].start_dt + TzOffset(o)) \div MinutesPerDay
    IN  {i \in DOMAIN appts :
            /\ appts[i].owner_id = o
            /\ appts[i].status \in {"PENDING", "CONFIRMED"}
            /\ (appts[i].start_dt + TzOffset(o)) \div MinutesPerDay = gap_date
            /\ appts[i].start_dt > appts[id].end_dt
            /\ Client(appts[i].client_id).opt_in_move_earlier
            /\ Service(appts[i].service_id).duration_min
                  <= appts[id].end_dt - appts[id].start_dt}

\* C27: in a cascade pass every earlier-move offer goes to an appointment that
\* is eligible, the offers go to the earliest eligible appointments (fewer
\* than max_outreach_per_gap eligible appointments start before an offered
\* one), and at most max_outreach_per_gap offers are sent.
C27_MoveOffersToEarliest ==
    [][\A id \in DOMAIN tasks :
          CascadeStep(id) =>
              LET limit == IF HasSettings(appts[id].owner_id)
                           THEN max_outreach_per_gap(appts[id].owner_id) ELSE 5
              IN  /\ Len(MoveOffers) <= limit
                  /\ \A k \in 1..Len(MoveOffers) :
                        /\ MoveOffers[k] \in EligibleToMove(id)
                        /\ Cardinality({j \in EligibleToMove(id) :
                                           appts[j].start_dt < appts[MoveOffers[k]].start_dt})
                              < limit]_vars

\* C28: an accepted earlier move feeds the slot the appointment has left back
\* into the cascade: the step that reports the move accepted creates or runs a
\* gap-fill pass.
C28_VacatedSlotRefilled ==
    [][\A id \in DOMAIN appts, gap_start \in GapStarts, send_raises \in BOOLEAN :
          /\ accept_earlier_move(id, gap_start, send_raises)
          /\ last'.out = "success"
          => \/ tasks' # tasks
             \/ lastPass'.no = lastPass.no + 1]_vars

\* C29: every gap-fill task that is created runs to its end (whenever a task
\* waits, later none does), and a pass sends at most max_outreach_per_gap
\* waitlist offers and at most
\* max_outreach_per_gap earlier-move offers.
C29_BoundedOutreach ==
    /\ [][\A id \in DOMAIN tasks :
             CascadeStep(id) =>
                 LET limit == IF HasSettings(appts[id].owner_id)
                              THEN max_outreach_per_gap(appts[id].owner_id) ELSE 5
                 IN  Len(OfferedEntries) <= limit /\ Len(MoveOffers) <= limit]_vars
    /\ (\E id \in DOMAIN tasks : tasks[id] >= 1)
          ~> (\A id \in DOMAIN tasks : tasks[id] = 0)

\* a pass has sent as many waitlist offers and as many earlier-move offers as
\* the limit allows, although more entries matched and more appointments could
\* have moved
C29_Witness ==
    /\ lastPass.ran = "completed"
    /\ Cardinality({k \in 1..Len(sent) : sent[k].kind = "waitlist_offer"}) = 2
    /\ Cardinality({k \in 1..Len(sent) : sent[k].kind = "move_offer"}) = 2
    /\ Cardinality({e \in DOMAIN waitlist :
                       /\ waitlist[e].owner_id = 4 /\ waitlist[e].service_id = 5
                       /\ waitlist[e].window_start_dt <= appts[1].start_dt
                       /\ waitlist[e].window_end_dt >= appts[1].end_dt}) = 3
    /\ Cardinality({i \in DOMAIN appts :
                       /\ appts[i].service_id = 5 /\ appts[i].status # "CANCELLED"
                       /\ Client(appts[i].client_id).opt_in_move_earlier
                       /\ appts[i].start_dt > appts[1].end_dt}) = 3

\* the rows of audit_logs of owner o
AuditCount(table, o) ==
    Count(table, AuditRow(o, "gap_fill_triggered"))
       + Count(table, AuditRow(o, "gap_fill_completed"))

\* C30: every gap-fill pass whose audit writes go through, deferred ones
\* included, leaves at least one new audit row for the owner; every accepted
\* and every declined offer leaves one; no audit row is removed.
C30_EverythingAudited ==
    [][/\ \A id \in DOMAIN tasks :
             CascadeStep(id) /\ lastPass'.ran # "raised_at_start" =>
                 AuditCount(audit', appts[id].owner_id)
                    > AuditCount(audit, appts[id].owner_id)
       /\ \A op \in {"accept_waitlist", "accept_move", "decline_waitlist", "decline_move"} :
             Returns(op) /\ last'.out = "success" => audit' # audit
       /\ \A row \in DOMAIN audit :
             row \in DOMAIN audit' /\ audit'[row] >= audit[row]]_vars

\* what a gap-fill task for appointment id does when both audit writes go
\* through (on_appointment_cancelled and fill_gap with fail = "none"): snt are
\* the messages it gets sent, wl is the waitlist it leaves and failed the
\* entries whose send did not succeed
PassEffect(id, snt, wl, failed) ==
    LET a == appts[id]
        o == a.owner_id
    IN  IF InQuietHours(o, now)
        THEN snt = <<>> /\ wl = waitlist /\ failed = {}
        ELSE LET matching == MatchingEntries(waitlist, o, a.start_dt, a.end_dt, a.service_id)
                 movable == MoveCandidates(appts, o, a.start_dt, a.end_dt, a.service_id)
             IN  \E wq \in Orderings(matching,
                                     {r \in matching \X matching :
                                         RankedBefore(waitlist, r[1], r[2])}),
                    aq \in Orderings(movable,
                                     {r \in movable \X movable :
                                         appts[r[1]].start_dt < appts[r[2]].start_dt}),
                    aware \in BOOLEAN :
                 LET entries == Limit(wq, MaxOutreach(o))
                     examined == Examined(waitlist, entries, aware)
                     candidates == Limit(aq, MaxOutreach(o))
                 IN  \E okW \in SUBSET Range(entries), okA \in SUBSET Range(candidates) :
                     LET notified == Notified(waitlist, examined, okW, now)
                         offered == IF examined # entries THEN <<>>
                                    ELSE Offered(appts, candidates, okA,
                                                 a.start_dt, a.end_dt)
                     IN  /\ snt = Messages("waitlist_offer", notified)
                                     \o Messages("move_offer", offered)
                         /\ wl = Tracked(waitlist, Range(notified), now)
                         /\ failed = Range(entries) \ okW

\* C31: a gap-fill pass sends the same messages and makes the same
\* notify_count updates whether its audit writes succeed or fail: whatever a
\* pass does, with the sends that failed in it, is what a pass from the same
\* state does when both audit writes go through.
C31_AuditFailureChangesNothing ==
    [][\A id \in DOMAIN tasks :
          CascadeStep(id) => PassEffect(id, sent', waitlist', lastPass'.failed)]_vars

\* every valid candidate of the dates current_date..end_date in chronological
\* order, each date's slots as _find_daily_slots returns them; raised tells
\* whether one of the dates ends the call with an exception
RECURSIVE AllCandidates(_, _, _, _, _)
AllCandidates(table, o, s, current_date, end_date) ==
    IF current_date > end_date THEN [raised |-> "none", slots |-> <<>>]
    ELSE LET daily == find_daily_slots(table, o, s, current_date)
             rest == AllCandidates(table, o, s, current_date + 1, end_date)
         IN  IF daily.raised # "none" THEN daily
             ELSE [raised |-> rest.raised, slots |-> daily.slots \o rest.slots]

\* C32: a BALANCED call that finds more valid candidates in its date range
\* than max_slots returns every stride-th candidate of the whole range in
\* chronological order, stride = floor(candidates / max_slots) and at least
\* 1, max_slots of them.
C32_BalancedSpreadsOverRange ==
    [][/\ found.at = None /\ found'.at # None
       /\ found.intent = "BALANCED" /\ found.max_slots >= 1
       => LET all == AllCandidates(appts, Service(found.service).owner_id, found.service,
                                   found.start_date, found.end_date)
              step == Len(all.slots) \div found.max_slots
              stride == IF step > 1 THEN step ELSE 1
          IN  all.raised = "none" /\ Len(all.slots) > found.max_slots
              => found'.slots = [k \in 1..found.max_slots |->
                                    all.slots[(k - 1) * stride + 1]]]_vars

\* the rules of the composite check in the order in which they are run
RuleOrder == <<"lead_time", "business_hours", "blocked_time", "conflict">>

\* whether a rule taken alone lets the candidate through
RulePasses(rule, table, o, s, start_dt, exclude_id) ==
    CASE rule = "lead_time" -> check_lead_time(o, start_dt)
      [] rule = "business_hours" ->
             check_business_hours(o, start_dt, Service(s).duration_min)
      [] rule = "blocked_time" ->
             check_blocked_time(o, start_dt, Service(s).duration_min) = "ok"
      [] OTHER -> Conflicts(table, o, start_dt, start_dt + Service(s).duration_min,
                            Service(s).buffer_min, exclude_id) = {}

\* the rule a refused request is reported with is the first rule in the order
\* that the candidate does not pass
FirstFailing(why, table, o, s, start_dt, exclude_id) ==
    \E k \in 1..Len(RuleOrder) :
        /\ why = RuleOrder[k]
        /\ ~RulePasses(RuleOrder[k], table, o, s, start_dt, exclude_id)
        /\ \A j \in 1..(k - 1) : RulePasses(RuleOrder[j], table, o, s, start_dt, exclude_id)

C34_QuietWindowHalfOpen ==
    [][\A id \in DOMAIN tasks :
          CascadeStep(id) /\ lastPass'.ran # "raised_at_start" =>
              LET o == appts[id].owner_id
                  t == (now + TzOffset(o)) % MinutesPerDay
                  quietStart == quiet_hours_start(o)
                  quietEnd == quiet_hours_end(o)
                  quiet == /\ quietStart # None /\ quietEnd # None
                           /\ \/ quietStart <= quietEnd /\ quietStart <= t /\ t < quietEnd
                              \/ quietStart > quietEnd /\ (t >= quietStart \/ t < quietEnd)
              IN  (lastPass'.ran = "deferred") <=> quiet]_vars

\* C35: every committed appointment lies inside an active Availability row of
\* the local weekday of its start: the row's start_time <= the local start,
\* and the local end, start + duration counted on from the start's date (so
\* past 24:00 when it falls on the next day), <= the row's end_time.
C35_CommittedInsideAvailability ==
    \A i \in DOMAIN appts :
        LET o == appts[i].owner_id
            start_local == appts[i].start_dt + TzOffset(o)
            minute == start_local % MinutesPerDay
        IN  \E r \in Availabilities(o) :
                /\ r.active
                /\ r.weekday = (start_local \div MinutesPerDay) % 7
                /\ r.start_time <= minute
                /\ minute + Service(appts[i].service_id).duration_min <= r.end_time

\* the conflict window of appointment A moved to new_start overlaps A's own
\* committed window
OverlapsOwn(A, new_start) ==
    /\ appts[A].status \in Active
    /\ appts[A].start_dt # new_start
    /\ appts[A].start_dt < new_start + Service(appts[A].service_id).duration_min
                                     + Service(appts[A].service_id).buffer_min
    /\ appts[A].end_dt > new_start - Service(appts[A].service_id).buffer_min

\* C36: a reschedule of appointment A to a start that lead time, business
\* hours and blocks allow, and whose conflict window overlaps no non-cancelled
\* appointment of the owner other than A itself, passes the composite check;
\* it passes the final recheck if that still holds then; and once both are
\* passed it commits the new start and returns the appointment.
C36_RescheduleIgnoresOwnWindow ==
    [][\A p \in Sessions :
          /\ \A A \in DOMAIN appts :
                \A new_start \in PolicyStarts(appts[A].owner_id) :
                    /\ RescheduleValidate(p, A, new_start)
                    /\ check_lead_time(appts[A].owner_id, new_start)
                    /\ check_business_hours(appts[A].owner_id, new_start,
                                            Service(appts[A].service_id).duration_min)
                    /\ check_blocked_time(appts[A].owner_id, new_start,
                                          Service(appts[A].service_id).duration_min) = "ok"
                    /\ ~\E B \in DOMAIN appts : Occupied(A, B, new_start)
                    => sess'[p].pc = "validated" /\ sess'[p].id = A /\ last' = last
          /\ (/\ sess[p].pc = "validated" /\ sess[p].op = "reschedule"
              /\ RescheduleRecheck(p)
              /\ ~\E B \in DOMAIN appts : Occupied(sess[p].id, B, sess[p].start)
              => sess'[p].pc = "checked" /\ last' = last)
          /\ (RescheduleCommit(p) =>
                 /\ Returns("reschedule") /\ last'.out = "ok"
                 /\ appts'[sess[p].id].start_dt = sess[p].start)]_vars

\* a reschedule whose new conflict window overlaps the appointment's own
\* committed window has passed both conflict checks and is about to commit
C36_Witness ==
    \E p \in Sessions :
        /\ sess[p].pc = "checked" /\ sess[p].op = "reschedule"
        /\ OverlapsOwn(sess[p].id, sess[p].start)

\* C37: however the clients who were offered a gap accept, at most one
\* acceptance puts an appointment into the gap: no two PENDING or CONFIRMED
\* appointments of the owner start at the start of a cancelled appointment.
C37_OneWinnerPerGap ==
    \A g \in DOMAIN appts :
        appts[g].status = "CANCELLED" =>
            Cardinality({i \in DOMAIN appts :
                            /\ appts[i].owner_id = appts[g].owner_id
                            /\ appts[i].status \in Active
                            /\ appts[i].start_dt = appts[g].start_dt}) <= 1

\* C38: a pass never offers an occupied slot: in every pass that sends a
\* waitlist notification or an earlier-move offer for a gap, no PENDING or
\* CONFIRMED appointment of the owner overlaps the gap at that moment.
C38_NeverOffersOccupied ==
    [][\A id \in DOMAIN tasks :
          CascadeStep(id) /\ NewMessages # <<>> =>
              ~\E i \in DOMAIN appts :
                  /\ appts[i].owner_id = appts[id].owner_id
                  /\ appts[i].status \in Active
                  /\ appts[i].start_dt < appts[id].end_dt
                  /\ appts[i].end_dt > appts[id].start_dt]_vars

\* the number of entries of S ranked before entry e
RankIn(S, e) == Cardinality({f \in S : RankedBefore(waitlist, f, e)})

====
